---- MODULE Spec2Model ----
(***************************************************************************)
(* The crawl coordination core of the asynchronous distributed crawler:    *)
(* the time-scheduled frontier (crawler/frontier.py), the per-domain rate  *)
(* limiter (crawler/rate_limiter.py), the visited set (crawler/dupe.py),   *)
(* the robots cache (crawler/robots.py), the page store                    *)
(* (crawler/storage.py) and the worker cycle (crawler/worker.py).          *)
(*                                                                         *)
(* Every await of the Python code is a separate step: between the moment a *)
(* caller reads time.time() and the moment the Redis server runs its       *)
(* command, other callers and the clock may move.  A Lua script and a      *)
(* single Redis command execute atomically at the server.                  *)
(*                                                                         *)
(* Time is counted in ticks of 1/Res second, so that a clock reading has a *)
(* fractional part.                                                        *)
(***************************************************************************)
EXTENDS Integers, Sequences, FiniteSets, TLC

\* ------------------------------------------------------------- bounds
NWorkers == 2
NUrls == 2
NHosts == 2
\* the age, in ticks, at which a cached robots.txt is fetched again
ttl == 2
\* ticks per second
Res == 2
\* how far the wall clock advances, in ticks
MaxTicks == 2
\* the largest cooldown, in ticks
MaxCooldown == 2
\* cfg.max_content_size_bytes, the byte cap of an HTML body
max_content_size_bytes == 2
\* the longest list a caller hands to has_many
MaxLen == 3

Workers == 1..NWorkers
Urls == 1..NUrls
Hosts == 1..NHosts

\* the web: a URL whose path ends in .PDF, a page of a host that is not
\* in cfg.allowed_domains, and the first URL as an operator may spell it in
\* SEED_URLS or on the command line of seed: HTTP://HOST:80/1#frag
BinaryUrl == NUrls + 1
OffsiteUrl == NUrls + 2
RawUrl == NUrls + 3
UrlIds == 1..(NUrls + 3)

\* the web: two URLs to a host
HostOf(url) ==
  IF url = OffsiteUrl THEN NHosts + 1
  ELSE IF url = RawUrl THEN 1
  ELSE ((((url + 1) \div 2) - 1) % NHosts) + 1

\* A URL string is its components.  A host is a name and its spelling: with
\* a leading "www." or not, in capitals or not.  A path is empty, or starts
\* at the root or not, and has directories, a file and the extension of the
\* file.
Host(name, www, upper) == [name |-> name, www |-> www, upper |-> upper]
NoHost == Host(0, FALSE, FALSE)

Path(root, dir, file, ext) ==
  [root |-> root, dir |-> dir, file |-> file, ext |-> ext]
EmptyPath == Path(FALSE, <<>>, 0, "")
RootPath == Path(TRUE, <<>>, 0, "")

Url(scheme, host, port, path, query, fragment) ==
  [scheme |-> scheme, host |-> host, port |-> port, path |-> path,
   query |-> query, fragment |-> fragment]

\* None where the other values are URLs
NoUrl == [none |-> TRUE]

\* the string of a URL of the crawl
url_of(url) ==
  IF url = RawUrl
  THEN Url("HTTP", Host(HostOf(url), FALSE, TRUE), "80",
           Path(TRUE, <<>>, 1, ""), "", "frag")
  ELSE Url("http", Host(HostOf(url), FALSE, FALSE), "",
           Path(TRUE, <<>>, url, IF url = BinaryUrl THEN ".PDF" ELSE ""),
           "", "")

\* the URL of the crawl that a string spells
id_of(u) == CHOOSE url \in UrlIds : url_of(url) = u

\* (urlparse(url).hostname or "").lower(); no URL of the crawl has a host
\* with "www."
hostname(url) == url_of(url).host.name

\* the web: the URLs that the robots.txt of their host disallows for the
\* configured user agent
Disallowed == {u \in Urls : u % 2 = 0}

\* Python's None, Lua's nil/false; no time, score or count is negative
None == 0 - 1

\* None where the other values are strings (a robots text, a content type)
NoText == "None"

\* None where the other values are sequences of characters (last_html)
NoHtml == <<None>>

\* the first clock reading of a run (time.time() is far from the epoch)
StartTime == 2 * Res
EndTime == StartTime + MaxTicks
Times == StartTime..EndTime
\* the scheduled_at values the frontier's callers pass
Scores == {StartTime - 1, StartTime + 1, EndTime + 1}

VARIABLES
  clock,      \* the wall clock, read by time.time()
  frontier,   \* Redis sorted set frontier:zset, a set of [member, score]
  pc,         \* pc[w]: the await at which caller w stands
  loc,        \* loc[w]: the local variables of caller w
  unclaimed,  \* history: unclaimed[u], the entries a ZADD created for u
              \* minus the times a pop_ready returned u
  rate,       \* Redis hash rate:domains, host -> next_allowed_time or None
  cooldown,   \* cfg.domain_cooldown_seconds, in ticks
  reservedAt, \* history: reservedAt[d], the wall-clock time at which the
              \* server last granted a reservation for host d, or None
  visited,        \* Redis set visited:set
  visited_ts,     \* Redis hash visited:ts, URL -> timestamp or None
  robots_cache,   \* Redis hash robots:cache, host -> robots text or NoText
  robots_ts,      \* Redis hash robots:ts, host -> fetched_at or None
  pages,          \* Mongo collection pages, a set of documents
  robots_blocked, \* Redis counter metrics:robots_blocked
  stop_event,     \* run_cmd's asyncio.Event, shared by the workers
  supervisor,     \* run_cmd and its monitor task: where they stand (pc),
                  \* max_pages, start_visited, curr; args_max_pages is
                  \* --max-pages, cfg_max_pages is Config.max_pages;
                  \* history: start, the cardinality of
                  \* the visited set when the workers were created
  call            \* a call of the parser: the function, its arguments
                  \* and what it returned

vars == <<clock, frontier, pc, loc, unclaimed, rate, cooldown, reservedAt,
          visited, visited_ts, robots_cache, robots_ts, pages, robots_blocked,
          stop_event, supervisor, call>>

\* the state of each component
frontierVars == <<frontier, unclaimed>>
rateVars == <<rate, reservedAt>>
visitedVars == <<visited, visited_ts>>
robotsVars == <<robots_cache, robots_ts>>
crawlVars == <<visitedVars, robotsVars, pages, robots_blocked>>
supervisorVars == <<stop_event, supervisor>>

\* ------------------------------------------------- Redis sorted set
Members(zset) == {e.member : e \in zset}

\* a ZADD that adds entries and never replaces one
ZADD_append(zset, members, score) ==
  zset \cup {[member |-> m, score |-> score] : m \in members}

\* ZADD key score member [score member ...], all members with one score
ZADD(zset, members, score) ==
  {e \in zset : e.member \notin members}
    \cup {[member |-> m, score |-> score] : m \in members}

\* ZADD's reply: the number of members that were not in the set before
Added(zset, members) == Cardinality(members \ Members(zset))

\* a range read from its upper end
LastOf(entries) ==
  IF entries = {} THEN <<>>
  ELSE LET last == CHOOSE e \in entries : \A f \in entries :
                     \/ e.score > f.score
                     \/ e.score = f.score /\ e.member >= f.member
       IN <<last.member>>

FirstOf(entries) ==
  IF entries = {} THEN <<>>
  ELSE LET first == CHOOSE e \in entries : \A f \in entries :
                      \/ e.score < f.score
                      \/ e.score = f.score /\ e.member <= f.member
       IN <<first.member>>

\* a range that leaves out the entries whose score equals max
ZRANGEBYSCORE_exclusive(zset, max) == FirstOf({e \in zset : e.score < max})

\* a range with no upper end
ZRANGEBYSCORE_inf(zset, max) == FirstOf(zset)

\* ZRANGEBYSCORE key -inf max LIMIT 0 1: the first entry in (score, member)
\* order among those with score <= max
ZRANGEBYSCORE(zset, max) == FirstOf({e \in zset : e.score <= max})

\* ZREM key member: the number of entries removed
Removed(zset, member) == IF member \in Members(zset) THEN 1 ELSE 0

\* a ZREM that removes nothing
ZREM_keep(zset, member) == zset

\* ZREM key member: the set left
ZREM(zset, member) == {e \in zset : e.member # member}

\* the while loop of POP_READY_LUA
RECURSIVE PopLoop(_, _, _, _, _)
PopLoop(zset, max_count, now, results, popped) ==
  IF popped < max_count
  THEN LET items == ZRANGEBYSCORE(zset, now)
       IN IF Len(items) = 0
          THEN [results |-> results, zset |-> zset]
          ELSE LET member == items[1]
                   removed == Removed(zset, member)
                   rest == ZREM(zset, member)
               IN IF removed = 1
                  THEN PopLoop(rest, max_count, now,
                               Append(results, member), popped + 1)
                  ELSE PopLoop(rest, max_count, now, results, popped)
  ELSE [results |-> results, zset |-> zset]

POP_READY_LUA(zset, max_count, now) == PopLoop(zset, max_count, now, <<>>, 0)

\* score = float(scheduled_at) if scheduled_at is not None else time.time()
PushScore(scheduled_at) == IF scheduled_at # None THEN scheduled_at ELSE clock

\* ------------------------------------------------------- Redis hash
HGET(hash, field) == hash[field]

HSET(hash, field, value) == [hash EXCEPT ![field] = value]

\* A Lua number in a script's reply becomes a Redis integer reply: the
\* server drops its fractional part.  (A number passed to redis.call as an
\* argument is written in full.)
LuaNumberReply(x) == (x \div Res) * Res

\* a script that reserves whatever the record says
CHECK_AND_RESERVE_LUA_always(hash, domain, now, cooldown_seconds) ==
  [reply |-> <<LuaNumberReply(now), 1>>,
   hash |-> HSET(hash, domain, now + cooldown_seconds)]

\* CHECK_AND_RESERVE_LUA: the reply {allowed_at, reserved} and the hash left
CHECK_AND_RESERVE_LUA(hash, domain, now, cooldown_seconds) ==
  LET next_ts == HGET(hash, domain)
  IN IF next_ts = None
     THEN [reply |-> <<LuaNumberReply(now), 1>>,
           hash |-> HSET(hash, domain, now + cooldown_seconds)]
     ELSE IF next_ts <= now
          THEN [reply |-> <<LuaNumberReply(now), 1>>,
                hash |-> HSET(hash, domain, now + cooldown_seconds)]
          ELSE [reply |-> <<LuaNumberReply(next_ts), 0>>, hash |-> hash]

\* ------------------------------------------------- the parser
ALLOWED_SCHEMES == {"http", "https"}
BLOCKED_PREFIXES == {"mailto:", "javascript:", "data:"}

\* a list of extensions without .pdf
BLOCKED_EXTS_media ==
  {".jpg", ".jpeg", ".png", ".gif", ".svg", ".webp", ".mp4", ".mp3"}

BLOCKED_EXTS ==
  {".jpg", ".jpeg", ".png", ".gif", ".svg", ".webp", ".pdf", ".zip", ".gz",
   ".tar", ".mp4", ".mp3"}

\* a path compared as it is spelled
lower_ext_as_is(ext) == ext

\* path.lower(), for the extensions of the web
lower_ext(ext) ==
  CASE ext = ".JPG" -> ".jpg"
    [] ext = ".PDF" -> ".pdf"
    [] ext = ".Html" -> ".html"
    [] OTHER -> ext

\* urlparse lowercases the scheme
lower_scheme(scheme) ==
  CASE scheme = "HTTP" -> "http"
    [] scheme = "HTTPS" -> "https"
    [] scheme = "MAILTO" -> "mailto"
    [] OTHER -> scheme

\* netloc.lower()
lower_host(host) == [host EXCEPT !.upper = FALSE]

\* An href is a URL reference: a prefix ("mailto:" and the like, "" for a
\* hierarchical reference), the components of a URL of which scheme and
\* host may be absent, and blanks around it or not.
Href(prefix, scheme, host, port, path, query, fragment, blanks) ==
  [prefix |-> prefix, scheme |-> scheme, host |-> host, port |-> port,
   path |-> path, query |-> query, fragment |-> fragment, blanks |-> blanks]

\* href.strip()
strip(href) == [href EXCEPT !.blanks = FALSE]

\* not href
is_empty(href) ==
  /\ ~href.blanks
  /\ href.prefix = "" /\ href.scheme = "" /\ href.host = NoHost
  /\ href.port = "" /\ href.path = EmptyPath /\ href.query = ""
  /\ href.fragment = ""

\* the scheme that urlparse finds in a reference with a prefix
prefix_scheme(prefix) ==
  CASE prefix = "mailto:" -> "mailto"
    [] prefix = "MAILTO:" -> "mailto"
    [] prefix = "javascript:" -> "javascript"
    [] prefix = "data:" -> "data"
    [] prefix = "tel:" -> "tel"

\* urljoin(base_url, href) as urlparse reads it: a reference with a scheme
\* stands for itself; one with a host takes the scheme of the base; one with
\* a path from the root takes scheme and host; one with another path is
\* merged with the directories of the base; one without a path takes the
\* path of the base, and its query if it has none
urljoin(base_url, href) ==
  IF href.prefix # ""
  THEN Url(prefix_scheme(href.prefix), NoHost, "", href.path, href.query,
           href.fragment)
  ELSE IF href.scheme # ""
  THEN Url(lower_scheme(href.scheme), href.host, href.port, href.path,
           href.query, href.fragment)
  ELSE IF href.host # NoHost
  THEN Url(lower_scheme(base_url.scheme), href.host, href.port, href.path,
           href.query, href.fragment)
  ELSE IF href.path = EmptyPath
  THEN Url(lower_scheme(base_url.scheme), base_url.host, base_url.port,
           base_url.path,
           IF href.query # "" THEN href.query ELSE base_url.query,
           href.fragment)
  ELSE IF href.path.root
  THEN Url(lower_scheme(base_url.scheme), base_url.host, base_url.port,
           href.path, href.query, href.fragment)
  ELSE Url(lower_scheme(base_url.scheme), base_url.host, base_url.port,
           Path(TRUE, base_url.path.dir \o href.path.dir, href.path.file,
                href.path.ext),
           href.query, href.fragment)

\* urldefrag(abs_url)
urldefrag(abs_url) == [abs_url EXCEPT !.fragment = ""]

\* normalize_url(base_url, href): the canonical URL, or None
normalize_url(base_url, href) ==
  IF is_empty(strip(href)) \/ strip(href).prefix \in BLOCKED_PREFIXES
  THEN NoUrl
  ELSE LET p == urldefrag(urljoin(base_url, strip(href)))
       IN IF p.scheme \notin ALLOWED_SCHEMES THEN NoUrl
          ELSE LET port == IF \/ p.port = "80" /\ p.scheme = "http"
                              \/ p.port = "443" /\ p.scheme = "https"
                           THEN "" ELSE p.port
                   path == IF p.path = EmptyPath THEN RootPath ELSE p.path
                   norm == Url(p.scheme, lower_host(p.host), port, path,
                               p.query, "")
               IN IF lower_ext(path.ext) \in BLOCKED_EXTS THEN NoUrl
                  ELSE norm

Range(seq) == {seq[i] : i \in 1..Len(seq)}

\* extract_links, lines 76-82: dedupe while preserving order
RECURSIVE deduped(_)
deduped(out) ==
  IF out = <<>> THEN <<>>
  ELSE LET front == deduped(SubSeq(out, 1, Len(out) - 1))
           u == out[Len(out)]
       IN IF u \in Range(front) THEN front ELSE Append(front, u)

\* host = urlparse(norm).hostname, without a leading "www."; host in
\* allowed_domains
host_in(host, domains) == [host EXCEPT !.www = FALSE] \in domains

\* extract_links, lines 63-83: the links of the anchors of a page, the
\* anchors given by their hrefs in document order
RECURSIVE links_of(_, _, _)
links_of(base_url, hrefs, domains) ==
  IF hrefs = <<>> THEN <<>>
  ELSE LET norm == normalize_url(base_url, hrefs[1])
           rest == links_of(base_url, Tail(hrefs), domains)
       IN IF norm = NoUrl THEN rest
          ELSE IF domains # {} /\ ~host_in(norm.host, domains) THEN rest
          ELSE <<norm>> \o rest

\* the links with their repetitions
find_links_all(base_url, hrefs, domains) ==
  links_of(base_url, hrefs, domains)

\* extract_links, lines 63-83: the links, deduped
find_links(base_url, hrefs, domains) ==
  deduped(links_of(base_url, hrefs, domains))

\* cfg.allowed_domains: the hosts of the crawl, in lower case
allowed_domains == {Host(h, FALSE, FALSE) : h \in Hosts}

\* a reference that is a file name, one that is a path from the root, and
\* one that is a whole URL
FileHref(file, ext, fragment) ==
  Href("", "", NoHost, "", Path(FALSE, <<>>, file, ext), "", fragment, FALSE)
RootHref(file, ext) ==
  Href("", "", NoHost, "", Path(TRUE, <<>>, file, ext), "", "", FALSE)
UrlHref(u) ==
  Href("", u.scheme, u.host, u.port, u.path, u.query, u.fragment, FALSE)
MailtoHref ==
  Href("mailto:", "", NoHost, "", Path(FALSE, <<>>, 1, ""), "", "", FALSE)

\* the web: the anchors of the page at url, in document order: the next
\* page, a document in .PDF, a mail address, a page of another site, and
\* the next page again, as HTTP://HOST:80/next#frag
Hrefs(url) ==
  LET next == (url_of(url).path.file % NUrls) + 1
  IN << UrlHref(url_of(next)),
        UrlHref(url_of(BinaryUrl)),
        MailtoHref,
        UrlHref(url_of(OffsiteUrl)),
        UrlHref([url_of(next) EXCEPT !.scheme = "HTTP", !.host.upper = TRUE,
                                     !.port = "80", !.fragment = "frag"]) >>

\* the URLs of the crawl that a list of strings spells
RECURSIVE ids_of(_)
ids_of(links) ==
  IF links = <<>> THEN <<>>
  ELSE <<id_of(links[1])>> \o ids_of(Tail(links))

\* the links that extract_links finds in the pages at the URLs 1..n
RECURSIVE links_upto(_)
links_upto(n) ==
  IF n = 0 THEN <<>>
  ELSE Append(links_upto(n - 1),
              ids_of(find_links(url_of(n), Hrefs(n), allowed_domains)))

\* the links that extract_links finds in the page at each URL of the crawl
PageLinks == links_upto(NUrls + 3)

\* extract_links(base_url, html, allowed_domains): title and links
extract_links(base_url, html) ==
  [title |-> "title", links |-> PageLinks[base_url]]

\* ------------------------------------------------- the web
\* the bytes of a body: a character of one byte, a byte that is no UTF-8
Bytes == {97, 255}

\* body.decode(errors="ignore")
is_utf8(b) == b < 128
decode(body) == SelectSeq(body, is_utf8)

\* the bodies of the web, up to one byte more than the cap
RECURSIVE Bodies(_)
Bodies(n) ==
  IF n = 0 THEN {<<>>}
  ELSE LET shorter == Bodies(n - 1)
       IN shorter \cup {Append(b, x) : b \in shorter, x \in Bytes}

\* the Content-Type headers of the web; NoText: no header
ContentTypes == {NoText, "text/html", "Text/HTML; charset=utf-8", "image/png"}

\* ctype.lower()
lower(ctype) ==
  IF ctype = "Text/HTML; charset=utf-8" THEN "text/html; charset=utf-8"
  ELSE ctype

\* "text/html" in ...
contains_text_html(ctype) ==
  ctype \in {"text/html", "text/html; charset=utf-8"}

\* what a GET may end in: an exception of the transport, or a response with
\* a status, a Content-Type, a body, and the bytes that the stream holds
\* when it is first read
TransportException ==
  [exc |-> TRUE, status |-> 0, ctype |-> NoText, content |-> <<>>, buffered |-> 0]

Response(status, ctype, content, buffered) ==
  [exc |-> FALSE, status |-> status, ctype |-> ctype, content |-> content,
   buffered |-> buffered]

\* no GET made yet
NoResponse ==
  [exc |-> FALSE, status |-> None, ctype |-> NoText, content |-> <<>>,
   buffered |-> 0]

\* every answer of the web
Responses ==
  {Response(st, ct, b, n) :
     st \in {200, 404}, ct \in ContentTypes,
     b \in Bodies(max_content_size_bytes + 1),
     n \in 1..(max_content_size_bytes + 1)}

\* a page that is served
ServedPage == Response(200, "text/html", <<97>>, max_content_size_bytes + 1)

\* the answers of the web in a run of several workers
FetchResults ==
  {TransportException,
   Response(200, "text/html", <<97>>, max_content_size_bytes + 1)}

\* a StreamReader that returns every byte asked for
read_exactly(content, n, buffered) ==
  SubSeq(content, 1, IF Len(content) < n THEN Len(content) ELSE n)

\* resp.content.read(n): up to n bytes, of those the stream holds
read(content, n, buffered) ==
  LET have == IF Len(content) < buffered THEN Len(content) ELSE buffered
  IN SubSeq(content, 1, IF have < n THEN have ELSE n)

\* Worker._fetch, lines 44-63: the result of an attempt that got a response
Received(resp) ==
  IF resp.status # 200
       \/ (resp.ctype \notin {NoText, ""}
             /\ ~contains_text_html(lower(resp.ctype)))
  THEN [status |-> resp.status, ctype |-> resp.ctype, html |-> NoHtml]
  ELSE LET body == read(resp.content, max_content_size_bytes + 1,
                        resp.buffered)
       IN IF Len(body) > max_content_size_bytes
          THEN [status |-> 200, ctype |-> resp.ctype, html |-> NoHtml]
          ELSE [status |-> 200, ctype |-> resp.ctype, html |-> decode(body)]

\* what the GET of a robots.txt may end in: an exception (a network error,
\* the timeout of 10 s), or a response with a status and a text
RobotsException == [exc |-> TRUE, status |-> 0, text |-> ""]

RobotsResponse(status, text) == [exc |-> FALSE, status |-> status, text |-> text]

\* no GET of a robots.txt made
NoRobotsResponse == [exc |-> FALSE, status |-> None, text |-> NoText]

\* every answer to the GET of a robots.txt: the text "rules" disallows the
\* URLs of Disallowed
RobotsResults ==
  {RobotsException, RobotsResponse(404, "rules"), RobotsResponse(500, ""),
   RobotsResponse(200, ""), RobotsResponse(200, "rules")}

\* the answers to the GET of a robots.txt in a run of several workers
RobotsFetchResults == {RobotsException, RobotsResponse(200, "rules")}

\* a _fetch_robots that takes the text of an error page for the rules
fetch_robots_any_status(result) ==
  IF result.exc THEN "" ELSE result.text

\* Robots._fetch_robots: "" for a status >= 400 and for an exception
fetch_robots(result) ==
  IF result.exc THEN ""
  ELSE IF result.status >= 400 THEN ""
  ELSE result.text

\* the attempts of _fetch and its first delay, 0.5 s
MaxAttempts == 3
InitialDelay == Res \div 2

\* html or "", and the test of if html:
or_empty(html) == IF html = NoHtml THEN <<>> ELSE html
truthy(html) == html # NoHtml /\ html # <<>>

\* ------------------------------------------------- the page store
\* find_one({"url": url}) finds a document
has_page(url) == \E d \in pages : d.url = url

\* Storage.get_page
get_page(url) == CHOOSE d \in pages : d.url = url

\* a collection that inserts on every upsert
update_one_insert(coll, url, doc) == coll \cup {doc}

\* update_one({"url": url}, {"$set": doc}, upsert=True): the first
\* document that matches is set to doc; without one, doc is inserted
update_one(coll, url, doc) ==
  IF \E d \in coll : d.url = url
  THEN LET first == CHOOSE d \in coll : d.url = url
       IN (coll \ {first}) \cup {doc}
  ELSE coll \cup {doc}

\* ------------------------------------------------- the visited set
\* a SMISMEMBER that answers once for every distinct member
smismember_distinct(set, url_list) ==
  [i \in 1..Len(deduped(url_list)) |-> deduped(url_list)[i] \in set]

\* SMISMEMBER: one flag per member asked for, in order
smismember(set, url_list) ==
  [i \in 1..Len(url_list) |-> url_list[i] \in set]

\* Dedupe.has_many
has_many_flags(url_list) ==
  IF url_list = <<>> THEN <<>> ELSE smismember(visited, url_list)

\* to_add = [u for u, seen in zip(new_links, flags) if not seen]
RECURSIVE to_add(_, _)
to_add(new_links, flags) ==
  IF new_links = <<>> \/ flags = <<>> THEN <<>>
  ELSE LET rest == to_add(Tail(new_links), Tail(flags))
       IN IF flags[1] THEN rest ELSE <<new_links[1]>> \o rest

\* ------------------------------------------------------ local state
InitLoc ==
  [now |-> None, max_count |-> None, urls |-> <<>>,
   members |-> {}, score |-> None, added |-> None,
   domain |-> None, allowed_at |-> None, reserved |-> FALSE,
   url |-> None, text |-> NoText, status |-> None, html |-> NoHtml,
   ctype |-> NoText, title |-> "", attempts |-> 0, delay |-> None,
   gets |-> 0, sleeps |-> <<>>, resp |-> NoResponse,
   robots_resp |-> NoRobotsResponse,
   seen |-> FALSE, flags |-> <<>>, count |-> None,
   new_links |-> <<>>, ts |-> None, outcome |-> "none"]

Occurrences(seq, u) == Cardinality({i \in 1..Len(seq) : seq[i] = u})

\* no URL visited, no robots.txt cached, no page stored
NothingCrawled ==
  /\ visited = {}
  /\ visited_ts = [u \in UrlIds |-> None]
  /\ robots_cache = [d \in Hosts |-> NoText]
  /\ robots_ts = [d \in Hosts |-> None]
  /\ pages = {}
  /\ robots_blocked = 0

\* no run_cmd: no stop signal and no monitor
NoSupervisor ==
  /\ stop_event = FALSE
  /\ supervisor = [pc |-> "none", max_pages |-> None,
                   args_max_pages |-> None, cfg_max_pages |-> None,
                   start_visited |-> None, curr |-> None, start |-> 0]

\* the parser has not been called
NoCall == call = [fn |-> "none"]

\* ------------------------------------------- the frontier's callers
\* Frontier.push up to its await
push(c, url, scheduled_at) ==
  /\ pc[c] = "idle"
  /\ pc' = [pc EXCEPT ![c] = "zadd"]
  /\ loc' = [loc EXCEPT ![c] = [InitLoc EXCEPT
                 !.members = {url}, !.score = PushScore(scheduled_at)]]
  /\ UNCHANGED <<clock, frontierVars, rateVars, cooldown, call, supervisorVars, crawlVars>>

\* Frontier.push_many up to its await; no command is sent for no URL
push_many(c, urls, scheduled_at) ==
  /\ pc[c] = "idle"
  /\ IF urls = {}
     THEN UNCHANGED <<pc, loc>>
     ELSE /\ pc' = [pc EXCEPT ![c] = "zadd"]
          /\ loc' = [loc EXCEPT ![c] = [InitLoc EXCEPT
                   !.members = urls, !.score = PushScore(scheduled_at)]]
  /\ UNCHANGED <<clock, frontierVars, rateVars, cooldown, call, supervisorVars, crawlVars>>

\* the server runs the ZADD of push or push_many
zadd(c) ==
  /\ pc[c] = "zadd"
  /\ frontier' = ZADD(frontier, loc[c].members, loc[c].score)
  /\ unclaimed' = [u \in UrlIds |->
        IF u \in loc[c].members /\ u \notin Members(frontier)
        THEN unclaimed[u] + 1 ELSE unclaimed[u]]
  /\ loc' = [loc EXCEPT ![c].added = Added(frontier, loc[c].members)]
  /\ pc' = [pc EXCEPT ![c] = "idle"]
  /\ UNCHANGED <<clock, rateVars, cooldown, call, supervisorVars, crawlVars>>

\* Frontier.pop_ready up to its await: the caller reads its clock
pop_ready(c, max_count) ==
  /\ pc[c] = "idle"
  /\ pc' = [pc EXCEPT ![c] = "pop_script"]
  /\ loc' = [loc EXCEPT ![c] = [InitLoc EXCEPT
                 !.now = clock, !.max_count = max_count]]
  /\ UNCHANGED <<clock, frontierVars, rateVars, cooldown, call, supervisorVars, crawlVars>>

\* the server runs POP_READY_LUA and the caller receives the list
pop_script(c) ==
  /\ pc[c] = "pop_script"
  /\ LET r == POP_READY_LUA(frontier, loc[c].max_count, loc[c].now)
     IN /\ frontier' = r.zset
        /\ loc' = [loc EXCEPT ![c].urls = r.results, ![c].now = None]
        /\ unclaimed' = [u \in UrlIds |->
              unclaimed[u] - Occurrences(r.results, u)]
  /\ pc' = [pc EXCEPT ![c] = "idle"]
  /\ UNCHANGED <<clock, rateVars, cooldown, call, supervisorVars, crawlVars>>

\* ---------------------------------------- the rate limiter's callers
\* RateLimiter.check_and_reserve up to its await: the caller reads its clock
check_and_reserve(c, domain) ==
  /\ pc[c] = "idle"
  /\ pc' = [pc EXCEPT ![c] = "rl_script"]
  /\ loc' = [loc EXCEPT ![c] = [InitLoc EXCEPT
                 !.domain = domain, !.now = clock]]
  /\ UNCHANGED <<clock, frontierVars, rateVars, cooldown, call, supervisorVars, crawlVars>>

\* the server runs CHECK_AND_RESERVE_LUA and the caller converts the reply
rl_script(c) ==
  /\ pc[c] = "rl_script"
  /\ LET r == CHECK_AND_RESERVE_LUA(rate, loc[c].domain, loc[c].now, cooldown)
     IN /\ rate' = r.hash
        /\ loc' = [loc EXCEPT ![c].allowed_at = r.reply[1],
                              ![c].reserved = (r.reply[2] = 1)]
        /\ reservedAt' = IF r.reply[2] = 1
                         THEN [reservedAt EXCEPT ![loc[c].domain] = clock]
                         ELSE reservedAt
  /\ pc' = [pc EXCEPT ![c] = "idle"]
  /\ UNCHANGED <<clock, frontierVars, cooldown, call, supervisorVars, crawlVars>>

\* --------------------------------------- the visited set's callers
\* Dedupe.is_visited(url): SISMEMBER
dedupe_is_visited(c, url) ==
  /\ pc[c] = "idle"
  /\ loc' = [loc EXCEPT ![c] = [InitLoc EXCEPT
                 !.url = url, !.seen = url \in visited,
                 !.outcome = "is_visited"]]
  /\ UNCHANGED <<clock, frontierVars, rateVars, cooldown, call, supervisorVars, crawlVars, pc>>

\* Dedupe.has_many(urls)
dedupe_has_many(c, url_list) ==
  /\ pc[c] = "idle"
  /\ loc' = [loc EXCEPT ![c] = [InitLoc EXCEPT
                 !.new_links = url_list,
                 !.flags = has_many_flags(url_list),
                 !.outcome = "has_many"]]
  /\ UNCHANGED <<clock, frontierVars, rateVars, cooldown, call, supervisorVars, crawlVars, pc>>

\* Dedupe.count(): SCARD
dedupe_count(c) ==
  /\ pc[c] = "idle"
  /\ loc' = [loc EXCEPT ![c] = [InitLoc EXCEPT
                 !.count = Cardinality(visited), !.outcome = "count"]]
  /\ UNCHANGED <<clock, frontierVars, rateVars, cooldown, call, supervisorVars, crawlVars, pc>>

\* ------------------------------------------------------- the worker
\* RobotFileParser.parse(text.splitlines()) and can_fetch(user_agent, url):
\* an empty text has no rule
can_fetch(text, url) == text = "" \/ url \notin Disallowed

\* a mark that keeps the time of the first mark (HSETNX)
mark_visited_ts_once(url, ts) ==
  IF visited_ts[url] # None THEN visited_ts
  ELSE [visited_ts EXCEPT ![url] = IF ts # None /\ ts # 0 THEN ts ELSE clock]

\* a pipeline whose SADD is lost
mark_visited_set_lost(url) == visited

\* Dedupe.mark_visited: SADD and HSET in one pipeline (MULTI/EXEC)
mark_visited_set(url) == visited \cup {url}
mark_visited_ts(url, ts) ==
  [visited_ts EXCEPT ![url] = IF ts # None /\ ts # 0 THEN ts ELSE clock]

\* Dedupe.mark_visited(url, ts) called by itself
dedupe_mark_visited(c, url, ts) ==
  /\ pc[c] = "idle"
  /\ visited' = mark_visited_set(url)
  /\ visited_ts' = mark_visited_ts(url, ts)
  /\ loc' = [loc EXCEPT ![c] = [InitLoc EXCEPT
                 !.url = url, !.ts = ts, !.outcome = "mark_visited"]]
  /\ UNCHANGED <<clock, frontierVars, rateVars, cooldown, call, supervisorVars, robotsVars,
                 pages, robots_blocked, pc>>

\* what process_one leaves behind when it returns: its locals are gone;
\* the URL it claimed and the way it took are kept as history
Return(c, outcome) ==
  [loc EXCEPT ![c] = [InitLoc EXCEPT !.outcome = outcome, !.url = loc[c].url]]

\* a worker that does not look at the stop signal
run_unstoppable(w) ==
  /\ pc[w] = "run"
  /\ pc' = [pc EXCEPT ![w] = "pop_ready"]
  /\ loc' = [loc EXCEPT ![w] = [InitLoc EXCEPT !.now = clock, !.max_count = 1]]
  /\ UNCHANGED <<clock, frontierVars, rateVars, cooldown, call, supervisorVars,
                 crawlVars>>

\* a worker that leaves its loop when process_one found no URL
run_break_idle(w) ==
  /\ pc[w] = "run"
  /\ stop_event \/ loc[w].outcome = "idle"
  /\ pc' = [pc EXCEPT ![w] = "done"]
  /\ loc' = Return(w, "done")
  /\ UNCHANGED <<clock, frontierVars, rateVars, cooldown, call, supervisorVars,
                 crawlVars>>

\* Worker.run, top of the loop: if stop_event.is_set(): break
run_break(w) ==
  /\ pc[w] = "run"
  /\ stop_event
  /\ pc' = [pc EXCEPT ![w] = "done"]
  /\ loc' = Return(w, "done")
  /\ UNCHANGED <<clock, frontierVars, rateVars, cooldown, call, supervisorVars,
                 crawlVars>>

\* Worker.run, top of the loop, the signal not set, and process_one up to
\* the await of pop_ready(max_count=1): the worker reads its clock
run(w) ==
  /\ pc[w] = "run"
  /\ ~stop_event
  /\ pc' = [pc EXCEPT ![w] = "pop_ready"]
  /\ loc' = [loc EXCEPT ![w] = [InitLoc EXCEPT !.now = clock, !.max_count = 1]]
  /\ UNCHANGED <<clock, frontierVars, rateVars, cooldown, call, supervisorVars, crawlVars>>

\* the server runs POP_READY_LUA; with no URL process_one returns False and
\* the worker sleeps
claim(w) ==
  /\ pc[w] = "pop_ready"
  /\ LET r == POP_READY_LUA(frontier, loc[w].max_count, loc[w].now)
     IN /\ frontier' = r.zset
        /\ unclaimed' = [u \in UrlIds |->
              unclaimed[u] - Occurrences(r.results, u)]
        /\ IF r.results = <<>>
           THEN /\ pc' = [pc EXCEPT ![w] = "run"]
                /\ loc' = Return(w, "idle")
           ELSE /\ pc' = [pc EXCEPT ![w] = "is_visited"]
                /\ loc' = [loc EXCEPT ![w].urls = r.results,
                                      ![w].url = r.results[1],
                                      ![w].now = None]
  /\ UNCHANGED <<clock, rateVars, cooldown, call, supervisorVars, crawlVars>>

\* a worker that goes on with a URL whatever the visited set holds
is_visited_ignored(w) ==
  /\ pc[w] = "is_visited"
  /\ pc' = [pc EXCEPT ![w] = "robots"]
  /\ UNCHANGED <<clock, frontierVars, rateVars, cooldown, call, supervisorVars, crawlVars, loc>>

\* if await self.dupe.is_visited(url): return True
is_visited(w) ==
  /\ pc[w] = "is_visited"
  /\ IF loc[w].url \in visited
     THEN /\ pc' = [pc EXCEPT ![w] = "run"]
          /\ loc' = Return(w, "visited")
     ELSE /\ pc' = [pc EXCEPT ![w] = "robots"]
          /\ UNCHANGED loc
  /\ UNCHANGED <<clock, frontierVars, rateVars, cooldown, call, supervisorVars, crawlVars>>

\* a cache whose entries are fresh up to the age of TTL, TTL included
robots_load_stale(w) ==
  /\ pc[w] = "robots"
  /\ LET ts_raw == HGET(robots_ts, hostname(loc[w].url))
         ts == IF ts_raw # None THEN ts_raw ELSE 0
     IN pc' = [pc EXCEPT ![w] =
                 IF clock - ts <= ttl THEN "robots_cached" ELSE "robots_fetch"]
  /\ loc' = [loc EXCEPT ![w].now = clock]
  /\ UNCHANGED <<clock, frontierVars, rateVars, cooldown, call, supervisorVars, crawlVars>>

\* Robots._load_or_update: the clock reading and the HGET of fetched_at
robots_load(w) ==
  /\ pc[w] = "robots"
  /\ LET ts_raw == HGET(robots_ts, hostname(loc[w].url))
         ts == IF ts_raw # None THEN ts_raw ELSE 0
     IN pc' = [pc EXCEPT ![w] =
                 IF clock - ts < ttl THEN "robots_cached" ELSE "robots_fetch"]
  /\ loc' = [loc EXCEPT ![w].now = clock]
  /\ UNCHANGED <<clock, frontierVars, rateVars, cooldown, call, supervisorVars, crawlVars>>

\* where process_one goes with the answer of Robots.is_allowed
AfterRobots(text, url) == IF can_fetch(text, url) THEN "reserve" ELSE "incr"

\* Robots._load_or_update, fresh entry: the HGET of the cached text
robots_cached(w) ==
  /\ pc[w] = "robots_cached"
  /\ LET cached == HGET(robots_cache, hostname(loc[w].url))
         text == IF cached = NoText THEN "" ELSE cached
     IN /\ pc' = [pc EXCEPT ![w] = AfterRobots(text, loc[w].url)]
        /\ loc' = [loc EXCEPT ![w].text = text, ![w].now = None]
  /\ UNCHANGED <<clock, frontierVars, rateVars, cooldown, call, supervisorVars, crawlVars>>

\* text = await self._fetch_robots(session, robots_url)
robots_fetch(w, result) ==
  /\ pc[w] = "robots_fetch"
  /\ pc' = [pc EXCEPT ![w] = "robots_store"]
  /\ loc' = [loc EXCEPT ![w].text = fetch_robots(result),
                        ![w].robots_resp = result]
  /\ UNCHANGED <<clock, frontierVars, rateVars, cooldown, call, supervisorVars, crawlVars>>

\* Robots._load_or_update: the pipeline that stores the text and now
robots_store(w) ==
  /\ pc[w] = "robots_store"
  /\ robots_cache' = HSET(robots_cache, hostname(loc[w].url), loc[w].text)
  /\ robots_ts' = HSET(robots_ts, hostname(loc[w].url), loc[w].now)
  /\ pc' = [pc EXCEPT ![w] = AfterRobots(loc[w].text, loc[w].url)]
  /\ loc' = [loc EXCEPT ![w].now = None]
  /\ UNCHANGED <<clock, frontierVars, rateVars, cooldown, call, supervisorVars, visitedVars,
                 pages, robots_blocked>>

\* not allowed: await self.redis.incr("metrics:robots_blocked")
incr(w) ==
  /\ pc[w] = "incr"
  /\ robots_blocked' = robots_blocked + 1
  /\ pc' = [pc EXCEPT ![w] = "mark_denied"]
  /\ UNCHANGED <<clock, frontierVars, rateVars, cooldown, call, supervisorVars, visitedVars,
                 robotsVars, pages, loc>>

\* a worker that returns without marking the disallowed URL
mark_denied_missing(w) ==
  /\ pc[w] = "mark_denied"
  /\ pc' = [pc EXCEPT ![w] = "run"]
  /\ loc' = Return(w, "robots")
  /\ UNCHANGED <<clock, frontierVars, rateVars, cooldown, call, supervisorVars, crawlVars>>

\* not allowed: await self.dupe.mark_visited(url); return True
mark_denied(w) ==
  /\ pc[w] = "mark_denied"
  /\ visited' = mark_visited_set(loc[w].url)
  /\ visited_ts' = mark_visited_ts(loc[w].url, None)
  /\ pc' = [pc EXCEPT ![w] = "run"]
  /\ loc' = Return(w, "robots")
  /\ UNCHANGED <<clock, frontierVars, rateVars, cooldown, call, supervisorVars, robotsVars,
                 pages, robots_blocked>>

\* domain = hostname(url); check_and_reserve up to its await
reserve(w) ==
  /\ pc[w] = "reserve"
  /\ pc' = [pc EXCEPT ![w] = "reserved"]
  /\ loc' = [loc EXCEPT ![w].domain = hostname(loc[w].url), ![w].now = clock]
  /\ UNCHANGED <<clock, frontierVars, rateVars, cooldown, call, supervisorVars, crawlVars>>

\* the server runs CHECK_AND_RESERVE_LUA for the worker; reserved, the
\* worker enters _fetch: attempts = 0, delay = 0.5, last_status = 0
reserved(w) ==
  /\ pc[w] = "reserved"
  /\ LET r == CHECK_AND_RESERVE_LUA(rate, loc[w].domain, loc[w].now, cooldown)
     IN /\ rate' = r.hash
        /\ loc' = [loc EXCEPT ![w].allowed_at = r.reply[1],
                              ![w].reserved = (r.reply[2] = 1),
                              ![w].now = None,
                              ![w].status =
                                 IF r.reply[2] = 1 THEN 0 ELSE None,
                              ![w].delay =
                                 IF r.reply[2] = 1 THEN InitialDelay
                                 ELSE None]
        /\ reservedAt' = IF r.reply[2] = 1
                         THEN [reservedAt EXCEPT ![loc[w].domain] = clock]
                         ELSE reservedAt
        /\ pc' = [pc EXCEPT ![w] = IF r.reply[2] = 1 THEN "fetch" ELSE "push"]
  /\ UNCHANGED <<clock, frontierVars, cooldown, call, supervisorVars, crawlVars>>

\* a worker that re-pushes the URL with the default score, the time of the
\* push
defer_now(w) ==
  /\ pc[w] = "push"
  /\ frontier' = ZADD(frontier, {loc[w].url}, PushScore(None))
  /\ unclaimed' = [u \in UrlIds |->
        IF u = loc[w].url /\ u \notin Members(frontier)
        THEN unclaimed[u] + 1 ELSE unclaimed[u]]
  /\ pc' = [pc EXCEPT ![w] = "run"]
  /\ loc' = [Return(w, "deferred") EXCEPT ![w].allowed_at = loc[w].allowed_at]
  /\ UNCHANGED <<clock, rateVars, cooldown, call, supervisorVars, crawlVars>>

\* not reserved: await self.frontier.push(url, scheduled_at=allowed_at);
\* return True
defer(w) ==
  /\ pc[w] = "push"
  /\ frontier' = ZADD(frontier, {loc[w].url}, PushScore(loc[w].allowed_at))
  /\ unclaimed' = [u \in UrlIds |->
        IF u = loc[w].url /\ u \notin Members(frontier)
        THEN unclaimed[u] + 1 ELSE unclaimed[u]]
  /\ pc' = [pc EXCEPT ![w] = "run"]
  /\ loc' = [Return(w, "deferred") EXCEPT ![w].allowed_at = loc[w].allowed_at]
  /\ UNCHANGED <<clock, rateVars, cooldown, call, supervisorVars, crawlVars>>

\* _fetch returns (last_status, last_ctype, last_html); process_one reads
\* ts = time.time() and extracts title and links if html
Fetched(w, result, attempts, status, ctype, html) ==
  LET ex == IF truthy(html) THEN extract_links(loc[w].url, html)
            ELSE [title |-> "", links |-> <<>>]
  IN /\ pc' = [pc EXCEPT ![w] = "save_page"]
     /\ loc' = [loc EXCEPT ![w].gets = loc[w].gets + 1,
                           ![w].resp = result,
                           ![w].attempts = attempts,
                           ![w].status = status,
                           ![w].ctype = ctype,
                           ![w].html = html,
                           ![w].ts = clock,
                           ![w].title = ex.title,
                           ![w].new_links = ex.links]

\* a _fetch that sleeps after its last attempt too
fetch_sleep_always(w, result) ==
  /\ pc[w] = "fetch"
  /\ IF result.exc
     THEN /\ pc' = [pc EXCEPT ![w] = "backoff"]
          /\ loc' = [loc EXCEPT ![w].gets = loc[w].gets + 1,
                                ![w].resp = result,
                                ![w].attempts = loc[w].attempts + 1,
                                ![w].status = 0,
                                ![w].ctype = NoText,
                                ![w].html = NoHtml]
     ELSE LET r == Received(result)
          IN Fetched(w, result, loc[w].attempts, r.status, r.ctype, r.html)
  /\ UNCHANGED <<clock, frontierVars, rateVars, cooldown, call, supervisorVars, crawlVars>>

\* Worker._fetch: one round of while attempts < 3, a GET and what it ends
\* in; after the last round _fetch returns
fetch(w, result) ==
  /\ pc[w] = "fetch"
  /\ loc[w].attempts < MaxAttempts
  /\ IF result.exc
     THEN LET attempts == loc[w].attempts + 1
          IN IF attempts < MaxAttempts
             THEN /\ pc' = [pc EXCEPT ![w] = "backoff"]
                  /\ loc' = [loc EXCEPT ![w].gets = loc[w].gets + 1,
                                        ![w].resp = result,
                                        ![w].attempts = attempts,
                                        ![w].status = 0,
                                        ![w].ctype = NoText,
                                        ![w].html = NoHtml]
             ELSE Fetched(w, result, attempts, 0, NoText, NoHtml)
     ELSE LET r == Received(result)
          IN Fetched(w, result, loc[w].attempts, r.status, r.ctype, r.html)
  /\ UNCHANGED <<clock, frontierVars, rateVars, cooldown, call, supervisorVars, crawlVars>>

\* await asyncio.sleep(delay); delay *= 2
backoff(w) ==
  /\ pc[w] = "backoff"
  /\ pc' = [pc EXCEPT ![w] = "fetch"]
  /\ loc' = [loc EXCEPT ![w].sleeps = Append(loc[w].sleeps, loc[w].delay),
                        ![w].delay = 2 * loc[w].delay]
  /\ UNCHANGED <<clock, frontierVars, rateVars, cooldown, call, supervisorVars, crawlVars>>

\* the document that process_one hands to Storage.save_page
PageOf(w) ==
  [url |-> loc[w].url, title |-> loc[w].title,
   html |-> or_empty(loc[w].html), links |-> loc[w].new_links,
   domain |-> loc[w].domain, timestamp |-> loc[w].ts,
   status |-> loc[w].status, content_type |-> loc[w].ctype]

\* a worker that goes on to mark_visited without the page being written
save_page_unwritten(w) ==
  /\ pc[w] = "save_page"
  /\ pc' = [pc EXCEPT ![w] = "mark_visited"]
  /\ UNCHANGED <<clock, frontierVars, rateVars, cooldown, call, supervisorVars,
                 crawlVars, loc>>

\* Storage.save_page: upsert by url
save_page(w) ==
  /\ pc[w] = "save_page"
  /\ pages' = update_one(pages, loc[w].url, PageOf(w))
  /\ pc' = [pc EXCEPT ![w] = "mark_visited"]
  /\ UNCHANGED <<clock, frontierVars, rateVars, cooldown, call, supervisorVars, visitedVars,
                 robotsVars, robots_blocked, loc>>

\* ---------------------------------------- the page store's callers
\* Storage.save_page(url, title, html, links, domain, timestamp, status,
\* content_type) up to its await: the document is built
storage_save_page(c, doc) ==
  /\ pc[c] = "idle"
  /\ pc' = [pc EXCEPT ![c] = "update_one"]
  /\ loc' = [loc EXCEPT ![c] = [InitLoc EXCEPT
                 !.url = doc.url, !.title = doc.title, !.html = doc.html,
                 !.new_links = doc.links, !.domain = doc.domain,
                 !.ts = doc.timestamp, !.status = doc.status,
                 !.ctype = doc.content_type]]
  /\ UNCHANGED <<clock, frontierVars, rateVars, cooldown, call, supervisorVars, crawlVars>>

\* the server runs the update_one
storage_update_one(c) ==
  /\ pc[c] = "update_one"
  /\ pages' = update_one(pages, loc[c].url, PageOf(c))
  /\ pc' = [pc EXCEPT ![c] = "idle"]
  /\ loc' = [loc EXCEPT ![c].outcome = "save_page"]
  /\ UNCHANGED <<clock, frontierVars, rateVars, cooldown, call, supervisorVars, visitedVars,
                 robotsVars, robots_blocked>>

\* a worker that puts a URL it could not fetch back into the frontier
mark_visited_requeue(w) ==
  /\ pc[w] = "mark_visited"
  /\ visited' = mark_visited_set(loc[w].url)
  /\ visited_ts' = mark_visited_ts(loc[w].url, loc[w].ts)
  /\ frontier' = IF loc[w].status = 0
                 THEN ZADD(frontier, {loc[w].url}, clock) ELSE frontier
  /\ IF loc[w].new_links # <<>>
     THEN /\ pc' = [pc EXCEPT ![w] = "has_many"]
          /\ UNCHANGED loc
     ELSE /\ pc' = [pc EXCEPT ![w] = "run"]
          /\ loc' = Return(w, "stored")
  /\ UNCHANGED <<clock, unclaimed, rateVars, cooldown, call, supervisorVars, robotsVars,
                 pages, robots_blocked>>

\* await self.dupe.mark_visited(url, ts); without links process_one returns
mark_visited(w) ==
  /\ pc[w] = "mark_visited"
  /\ visited' = mark_visited_set(loc[w].url)
  /\ visited_ts' = mark_visited_ts(loc[w].url, loc[w].ts)
  /\ IF loc[w].new_links # <<>>
     THEN /\ pc' = [pc EXCEPT ![w] = "has_many"]
          /\ UNCHANGED loc
     ELSE /\ pc' = [pc EXCEPT ![w] = "run"]
          /\ loc' = Return(w, "stored")
  /\ UNCHANGED <<clock, frontierVars, rateVars, cooldown, call, supervisorVars, robotsVars,
                 pages, robots_blocked>>

\* flags = await self.dupe.has_many(new_links); to_add; push_many up to its
\* await
has_many(w) ==
  /\ pc[w] = "has_many"
  /\ LET flags == has_many_flags(loc[w].new_links)
         adding == to_add(loc[w].new_links, flags)
     IN IF adding # <<>>
        THEN /\ pc' = [pc EXCEPT ![w] = "push_many"]
             /\ loc' = [loc EXCEPT ![w].members = Range(adding),
                                   ![w].score = PushScore(None)]
        ELSE /\ pc' = [pc EXCEPT ![w] = "run"]
             /\ loc' = Return(w, "stored")
  /\ UNCHANGED <<clock, frontierVars, rateVars, cooldown, call, supervisorVars, crawlVars>>

\* the server runs the ZADD of push_many(to_add); process_one returns True
enqueue(w) ==
  /\ pc[w] = "push_many"
  /\ frontier' = ZADD(frontier, loc[w].members, loc[w].score)
  /\ unclaimed' = [u \in UrlIds |->
        IF u \in loc[w].members /\ u \notin Members(frontier)
        THEN unclaimed[u] + 1 ELSE unclaimed[u]]
  /\ pc' = [pc EXCEPT ![w] = "run"]
  /\ loc' = Return(w, "stored")
  /\ UNCHANGED <<clock, rateVars, cooldown, call, supervisorVars, crawlVars>>

\* the awaits of process_one at which a Redis command or a Mongo command
\* is in flight and is not inside a try
StoreAwaits ==
  {"pop_ready", "is_visited", "robots", "robots_cached", "robots_store",
   "mark_denied", "reserved", "push", "save_page", "mark_visited",
   "has_many", "push_many"}

\* the command a worker awaits raises: process_one has no handler and
\* Worker.run has none, so the exception ends the worker's task
outage(w) ==
  /\ pc[w] \in StoreAwaits
  /\ pc' = [pc EXCEPT ![w] = "raised"]
  /\ loc' = Return(w, "raised")
  /\ UNCHANGED <<clock, frontierVars, rateVars, cooldown, call, supervisorVars, crawlVars>>

\* run_cmd: await asyncio.gather(*tasks, mon_task) raises the exception of
\* the task, which is no CancelledError; run_cmd ends with it and
\* asyncio.run cancels the tasks that are left
gather_raises ==
  /\ \E w \in Workers : pc[w] = "raised"
  /\ \E w \in Workers : pc[w] \notin {"raised", "cancelled"}
  /\ pc' = [w \in Workers |->
              IF pc[w] = "raised" THEN "raised" ELSE "cancelled"]
  /\ loc' = [w \in Workers |->
              IF pc[w] = "raised" THEN loc[w]
              ELSE [InitLoc EXCEPT !.outcome = "cancelled",
                                   !.url = loc[w].url]]
  /\ UNCHANGED <<clock, frontierVars, rateVars, cooldown, call, supervisorVars, crawlVars>>

\* ------------------------------------------------- the run supervisor
\* main: asyncio.run(run_cmd(conc, args.max_pages)); Config.max_pages is
\* not passed on
run_cmd_max_pages(args_max_pages, cfg_max_pages) == args_max_pages

\* monitor: target = start_visited + max_pages
target(start_visited, max_pages) == start_visited + max_pages

\* run_cmd, the tasks of the workers created: start_visited = await
\* redis.scard(VISITED_SET), then the monitor task is created
start_visited ==
  /\ supervisor.pc = "start_visited"
  /\ supervisor' = [supervisor EXCEPT !.start_visited = Cardinality(visited),
                                      !.pc = "monitor"]
  /\ UNCHANGED <<clock, frontierVars, rateVars, cooldown, call, crawlVars, pc, loc,
                 stop_event>>

\* monitor: if not max_pages: return; else the loop up to its first SCARD
monitor ==
  /\ supervisor.pc = "monitor"
  /\ supervisor' = [supervisor EXCEPT !.pc =
        IF supervisor.max_pages \in {None, 0} THEN "returned" ELSE "scard"]
  /\ UNCHANGED <<clock, frontierVars, rateVars, cooldown, call, crawlVars, pc, loc,
                 stop_event>>

\* monitor: curr = await redis.scard(VISITED_SET), at the server
monitor_scard ==
  /\ supervisor.pc = "scard"
  /\ supervisor' = [supervisor EXCEPT !.curr = Cardinality(visited),
                                      !.pc = "curr"]
  /\ UNCHANGED <<clock, frontierVars, rateVars, cooldown, call, crawlVars, pc, loc,
                 stop_event>>

\* monitor: if curr >= target: stop_event.set(); break; else sleep 0.2 s
\* and go round the loop
monitor_curr ==
  /\ supervisor.pc = "curr"
  /\ IF supervisor.curr >=
          target(supervisor.start_visited, supervisor.max_pages)
     THEN /\ stop_event' = TRUE
          /\ supervisor' = [supervisor EXCEPT !.pc = "returned"]
     ELSE /\ UNCHANGED stop_event
          /\ supervisor' = [supervisor EXCEPT !.pc = "scard", !.curr = None]
  /\ UNCHANGED <<clock, frontierVars, rateVars, cooldown, call, crawlVars, pc, loc>>

\* the wall clock advances
Tick ==
  /\ clock < EndTime
  /\ clock' = clock + 1
  /\ UNCHANGED <<frontierVars, rateVars, cooldown, call, supervisorVars, crawlVars, pc, loc>>

\* ----------------------------- specification: callers of the frontier
InitFrontier ==
  /\ clock = StartTime
  /\ frontier = {}
  /\ pc = [w \in Workers |-> "idle"]
  /\ loc = [w \in Workers |-> InitLoc]
  /\ unclaimed = [u \in UrlIds |-> 0]
  /\ rate = [d \in Hosts |-> None]
  /\ cooldown = Res
  /\ reservedAt = [d \in Hosts |-> None]
  /\ NothingCrawled
  /\ NoSupervisor
  /\ NoCall

NextFrontier ==
  \/ \E c \in Workers, u \in Urls, s \in Scores \cup {None} : push(c, u, s)
  \/ \E c \in Workers, us \in SUBSET Urls, s \in Scores \cup {None} :
        push_many(c, us, s)
  \/ \E c \in Workers : zadd(c)
  \/ \E c \in Workers, m \in 0..(NUrls + 1) : pop_ready(c, m)
  \/ \E c \in Workers : pop_script(c)
  \/ Tick

SpecFrontier == InitFrontier /\ [][NextFrontier]_vars

\* ------------ specification: concurrent pop_ready calls drain the frontier
\* Entries that are due were pushed; every caller then calls pop_ready once,
\* with max_count at least the number of entries, and nobody pushes.
Zsets(scores) ==
  UNION {{ {[member |-> u, score |-> f[u]] : u \in us} : f \in [us -> scores]} :
         us \in SUBSET Urls}

InitDrain ==
  /\ clock = StartTime
  /\ frontier \in Zsets({StartTime - 1, StartTime})
  /\ pc = [w \in Workers |-> "idle"]
  /\ loc = [w \in Workers |-> InitLoc]
  /\ unclaimed = [u \in UrlIds |-> IF u \in Members(frontier) THEN 1 ELSE 0]
  /\ rate = [d \in Hosts |-> None]
  /\ cooldown = Res
  /\ reservedAt = [d \in Hosts |-> None]
  /\ NothingCrawled
  /\ NoSupervisor
  /\ NoCall

Returned(c) == {loc[c].urls[i] : i \in 1..Len(loc[c].urls)}

\* the URLs that were pushed: those not yet returned and those returned
Pushed == {u \in Urls : unclaimed[u] > 0} \cup UNION {Returned(c) : c \in Workers}

\* a caller's one pop_ready(max_count), max_count >= the number of URLs pushed
pop_ready_all(c, max_count) ==
  /\ loc[c].max_count = None
  /\ max_count >= Cardinality(Pushed)
  /\ pop_ready(c, max_count)

NextDrain ==
  \/ \E c \in Workers, m \in 0..(NUrls + 1) : pop_ready_all(c, m)
  \/ \E c \in Workers : pop_script(c)
  \/ Tick

SpecDrain == InitDrain /\ [][NextDrain]_vars

\* ------------------------ specification: callers of the rate limiter
InitRate ==
  /\ clock = StartTime
  /\ frontier = {}
  /\ pc = [w \in Workers |-> "idle"]
  /\ loc = [w \in Workers |-> InitLoc]
  /\ unclaimed = [u \in UrlIds |-> 0]
  /\ rate = [d \in Hosts |-> None]
  /\ cooldown \in 0..MaxCooldown
  /\ reservedAt = [d \in Hosts |-> None]
  /\ NothingCrawled
  /\ NoSupervisor
  /\ NoCall

NextRate ==
  \/ \E c \in Workers, d \in Hosts : check_and_reserve(c, d)
  \/ \E c \in Workers : rl_script(c)
  \/ Tick

SpecRate == InitRate /\ [][NextRate]_vars

\* --------- specification: concurrent reservations for one host (S4)
\* Every host's record is absent or expired; every caller then calls
\* check_and_reserve once, all for the same host, with a positive cooldown.
InitBurst ==
  /\ clock = StartTime
  /\ frontier = {}
  /\ pc = [w \in Workers |-> "idle"]
  /\ loc = [w \in Workers |-> InitLoc]
  /\ unclaimed = [u \in UrlIds |-> 0]
  /\ rate \in [Hosts -> {None, StartTime - 1, StartTime}]
  /\ cooldown \in 1..MaxCooldown
  /\ reservedAt = [d \in Hosts |-> None]
  /\ NothingCrawled
  /\ NoSupervisor
  /\ NoCall

\* a caller's one check_and_reserve, for the host the others call for
check_and_reserve_same(c, domain) ==
  /\ loc[c].domain = None
  /\ \A o \in Workers : loc[o].domain \in {None, domain}
  /\ check_and_reserve(c, domain)

NextBurst ==
  \/ \E c \in Workers, d \in Hosts : check_and_reserve_same(c, d)
  \/ \E c \in Workers : rl_script(c)
  \/ Tick

SpecBurst == InitBurst /\ [][NextBurst]_vars

\* -------------------------------------- specification: a run of workers
\* run_cmd has seeded the frontier from cfg.seed_urls and started the workers
Init ==
  /\ clock = StartTime
  /\ \E seed_urls \in SUBSET Urls : frontier = ZADD({}, seed_urls, StartTime)
  /\ pc = [w \in Workers |-> "run"]
  /\ loc = [w \in Workers |-> InitLoc]
  /\ unclaimed = [u \in UrlIds |-> IF u \in Members(frontier) THEN 1 ELSE 0]
  /\ rate = [d \in Hosts |-> None]
  /\ cooldown \in 0..MaxCooldown
  /\ reservedAt = [d \in Hosts |-> None]
  /\ NothingCrawled
  /\ NoSupervisor
  /\ NoCall

Next ==
  \/ \E w \in Workers : run(w)
  \/ \E w \in Workers : claim(w)
  \/ \E w \in Workers : is_visited(w)
  \/ \E w \in Workers : robots_load(w)
  \/ \E w \in Workers : robots_cached(w)
  \/ \E w \in Workers, result \in RobotsFetchResults :
        robots_fetch(w, result)
  \/ \E w \in Workers : robots_store(w)
  \/ \E w \in Workers : incr(w)
  \/ \E w \in Workers : mark_denied(w)
  \/ \E w \in Workers : reserve(w)
  \/ \E w \in Workers : reserved(w)
  \/ \E w \in Workers : defer(w)
  \/ \E w \in Workers, result \in FetchResults : fetch(w, result)
  \/ \E w \in Workers : backoff(w)
  \/ \E w \in Workers : save_page(w)
  \/ \E w \in Workers : mark_visited(w)
  \/ \E w \in Workers : has_many(w)
  \/ \E w \in Workers : enqueue(w)
  \/ Tick

Spec == Init /\ [][Next]_vars

\* --------------- specification: one worker and every answer of the web
\* The run of one worker, whose GETs the web answers in every way; every
\* robots.txt is empty and the clock stands still.
Crawler == CHOOSE w \in Workers : TRUE

NextFetch ==
  \/ run(Crawler)
  \/ claim(Crawler)
  \/ is_visited(Crawler)
  \/ robots_load(Crawler)
  \/ robots_cached(Crawler)
  \/ robots_fetch(Crawler, RobotsResponse(200, ""))
  \/ robots_store(Crawler)
  \/ reserve(Crawler)
  \/ reserved(Crawler)
  \/ defer(Crawler)
  \/ \E result \in Responses \cup {TransportException} :
        fetch(Crawler, result)
  \/ backoff(Crawler)
  \/ save_page(Crawler)
  \/ mark_visited(Crawler)
  \/ has_many(Crawler)
  \/ enqueue(Crawler)

SpecFetch == Init /\ [][NextFetch]_vars

\* ------------------------ specification: callers of the visited set
InitDedupe ==
  /\ clock = StartTime
  /\ frontier = {}
  /\ pc = [w \in Workers |-> "idle"]
  /\ loc = [w \in Workers |-> InitLoc]
  /\ unclaimed = [u \in UrlIds |-> 0]
  /\ rate = [d \in Hosts |-> None]
  /\ cooldown = 0
  /\ reservedAt = [d \in Hosts |-> None]
  /\ NothingCrawled
  /\ NoSupervisor
  /\ NoCall

\* the lists of URLs of at most n members
RECURSIVE UrlLists(_)
UrlLists(n) ==
  IF n = 0 THEN {<<>>}
  ELSE LET shorter == UrlLists(n - 1)
       IN shorter \cup {Append(l, u) : l \in shorter, u \in Urls}

NextDedupe ==
  \/ \E c \in Workers, u \in Urls, ts \in Times \cup {None} :
        dedupe_mark_visited(c, u, ts)
  \/ \E c \in Workers, u \in Urls : dedupe_is_visited(c, u)
  \/ \E c \in Workers, l \in UrlLists(MaxLen) : dedupe_has_many(c, l)
  \/ \E c \in Workers : dedupe_count(c)
  \/ Tick

SpecDedupe == InitDedupe /\ [][NextDedupe]_vars

\* -------------------------- specification: callers of the page store
\* the documents the callers save: every field takes two values
Docs ==
  {[url |-> u, title |-> t, html |-> h, links |-> l, domain |-> hostname(u),
    timestamp |-> ts, status |-> st, content_type |-> ct] :
     u \in Urls, ts \in {StartTime, EndTime},
     t \in {"", "title"}, h \in {<<>>, <<97>>},
     l \in {<<>>} \cup {<<v>> : v \in Urls},
     st \in {0, 200}, ct \in {NoText, "text/html"}}

\* the documents of a fetch that failed and of a page that was served
SavedDocs ==
  {d \in Docs :
     \/ d.status = 0 /\ d.title = "" /\ d.html = <<>> /\ d.links = <<>>
           /\ d.content_type = NoText
     \/ d.status = 200 /\ d.title = "title" /\ d.html = <<97>>
           /\ d.links # <<>> /\ d.content_type = "text/html"}

NextStore ==
  \/ \E c \in Workers, doc \in SavedDocs : storage_save_page(c, doc)
  \/ \E c \in Workers : storage_update_one(c)

SpecStore == InitDedupe /\ [][NextStore]_vars

\* ------- specification: one worker and every answer for a robots.txt
\* The run of one worker; the GET of a robots.txt is answered in every way
\* and every page is served.
NextRobots ==
  \/ run(Crawler)
  \/ claim(Crawler)
  \/ is_visited(Crawler)
  \/ robots_load(Crawler)
  \/ robots_cached(Crawler)
  \/ \E result \in RobotsResults : robots_fetch(Crawler, result)
  \/ robots_store(Crawler)
  \/ incr(Crawler)
  \/ mark_denied(Crawler)
  \/ reserve(Crawler)
  \/ reserved(Crawler)
  \/ defer(Crawler)
  \/ fetch(Crawler, ServedPage)
  \/ save_page(Crawler)
  \/ mark_visited(Crawler)
  \/ has_many(Crawler)
  \/ enqueue(Crawler)
  \/ Tick

SpecRobots == Init /\ [][NextRobots]_vars

\* ------------------ specification: a run while an operator seeds URLs
\* seed_cmd(redis, urls), of the command seed and of run_cmd for
\* cfg.seed_urls: the URLs go to Frontier.push_many as they were typed; the
\* server runs the ZADD with the caller's time.time() as score
seed_cmd(urls) ==
  /\ urls # {}
  /\ frontier' = ZADD(frontier, urls, clock)
  /\ unclaimed' = [u \in UrlIds |->
        IF u \in urls /\ u \notin Members(frontier)
        THEN unclaimed[u] + 1 ELSE unclaimed[u]]
  /\ UNCHANGED <<clock, rateVars, cooldown, call, supervisorVars, crawlVars, pc, loc>>

\* what an operator seeds: the first URL, as HTTP://HOST:80/1#frag or in
\* canonical form, alone or with the second URL
SeedUrls == {{1}, {RawUrl}, {RawUrl, 2}}

\* The run of one worker on a frontier that is empty until a seed command
\* fills it; no cooldown, the robots.txt files and the pages are served.
InitSeed ==
  /\ clock = StartTime
  /\ frontier = {}
  /\ pc = [w \in Workers |-> "run"]
  /\ loc = [w \in Workers |-> InitLoc]
  /\ unclaimed = [u \in UrlIds |-> 0]
  /\ rate = [d \in Hosts |-> None]
  /\ cooldown = 0
  /\ reservedAt = [d \in Hosts |-> None]
  /\ NothingCrawled
  /\ NoSupervisor
  /\ NoCall

NextSeed ==
  \/ \E urls \in SeedUrls : seed_cmd(urls)
  \/ run(Crawler)
  \/ claim(Crawler)
  \/ is_visited(Crawler)
  \/ robots_load(Crawler)
  \/ robots_cached(Crawler)
  \/ robots_fetch(Crawler, RobotsResponse(200, "rules"))
  \/ robots_store(Crawler)
  \/ incr(Crawler)
  \/ mark_denied(Crawler)
  \/ reserve(Crawler)
  \/ reserved(Crawler)
  \/ fetch(Crawler, ServedPage)
  \/ save_page(Crawler)
  \/ mark_visited(Crawler)
  \/ has_many(Crawler)
  \/ enqueue(Crawler)
  \/ Tick

SpecSeed == InitSeed /\ [][NextSeed]_vars

\* ----------- specification: a run in which commands of the stores raise
\* The run of the workers with no cooldown, empty robots.txt files, pages
\* that are served, and a clock that stands still; a command of Redis or of
\* Mongo that a worker awaits may raise.
InitOutage == Init /\ cooldown = 0

NextOutage ==
  \/ \E w \in Workers : run(w)
  \/ \E w \in Workers : claim(w)
  \/ \E w \in Workers : is_visited(w)
  \/ \E w \in Workers : robots_load(w)
  \/ \E w \in Workers : robots_cached(w)
  \/ \E w \in Workers : robots_fetch(w, RobotsResponse(200, ""))
  \/ \E w \in Workers : robots_store(w)
  \/ \E w \in Workers : reserve(w)
  \/ \E w \in Workers : reserved(w)
  \/ \E w \in Workers : fetch(w, ServedPage)
  \/ \E w \in Workers : save_page(w)
  \/ \E w \in Workers : mark_visited(w)
  \/ \E w \in Workers : has_many(w)
  \/ \E w \in Workers : enqueue(w)
  \/ \E w \in Workers : outage(w)
  \/ gather_raises

SpecOutage == InitOutage /\ [][NextOutage]_vars

\* ------------- specification: a run with its supervisor and monitor
\* run_cmd has seeded the frontier and created the tasks of the workers;
\* an earlier run may have visited a URL.  There is no cooldown, every
\* robots.txt holds the rules and every page is served.  Every task that
\* can take a step takes one in the end: the event loop runs every task
\* that is ready and every command returns.
InitStop ==
  /\ clock = StartTime
  /\ \E seed_urls \in SUBSET Urls : frontier = ZADD({}, seed_urls, StartTime)
  /\ pc = [w \in Workers |-> "run"]
  /\ loc = [w \in Workers |-> InitLoc]
  /\ unclaimed = [u \in UrlIds |-> IF u \in Members(frontier) THEN 1 ELSE 0]
  /\ rate = [d \in Hosts |-> None]
  /\ cooldown = 0
  /\ reservedAt = [d \in Hosts |-> None]
  /\ visited \in {{}, {NUrls}}
  /\ visited_ts = [u \in UrlIds |-> IF u \in visited THEN StartTime - 1 ELSE None]
  /\ robots_cache = [d \in Hosts |-> NoText]
  /\ robots_ts = [d \in Hosts |-> None]
  /\ pages = {}
  /\ robots_blocked = 0
  /\ NoCall
  /\ stop_event = FALSE
  /\ \E args_max_pages \in {None} \cup (1..NUrls),
        cfg_max_pages \in {None, 1} :
        supervisor = [pc |-> "start_visited",
                      max_pages |-> run_cmd_max_pages(args_max_pages,
                                                      cfg_max_pages),
                      args_max_pages |-> args_max_pages,
                      cfg_max_pages |-> cfg_max_pages,
                      start_visited |-> None, curr |-> None,
                      start |-> Cardinality(visited)]

\* the steps of the task of a worker
WorkerStep(w) ==
  \/ run(w)
  \/ run_break(w)
  \/ claim(w)
  \/ is_visited(w)
  \/ robots_load(w)
  \/ robots_cached(w)
  \/ robots_fetch(w, RobotsResponse(200, "rules"))
  \/ robots_store(w)
  \/ incr(w)
  \/ mark_denied(w)
  \/ reserve(w)
  \/ reserved(w)
  \/ fetch(w, ServedPage)
  \/ save_page(w)
  \/ mark_visited(w)
  \/ has_many(w)
  \/ enqueue(w)

\* the steps of run_cmd and of its monitor task
SupervisorStep ==
  \/ start_visited
  \/ monitor
  \/ monitor_scard
  \/ monitor_curr

NextStop ==
  \/ \E w \in Workers : WorkerStep(w)
  \/ SupervisorStep

SpecStop ==
  /\ InitStop
  /\ [][NextStop]_vars
  /\ \A w \in Workers : WF_vars(WorkerStep(w))
  /\ WF_vars(SupervisorStep)

\* ----------------------------- specification: the parser's functions
\* the longest list of anchors of a page
MaxHrefs == 4

\* hosts as pages spell them: example.com, Example.COM, www.example.com,
\* and other.com, which no configuration allows
ExampleHost == Host(1, FALSE, FALSE)
OtherHost == Host(NHosts + 1, FALSE, FALSE)
HostSpellings ==
  {ExampleHost, Host(1, FALSE, TRUE), Host(1, TRUE, FALSE), OtherHost}

\* paths of pages and of references: none, "/", "/1", "/1/2.html" and
\* files with the extensions of documents and images
Exts == {"", ".Html", ".JPG", ".jpg", ".pdf", ".PDF"}
HrefPaths ==
  {EmptyPath, RootPath}
    \cup {Path(root, <<>>, 1, ext) : root \in BOOLEAN, ext \in Exts}
    \cup {Path(TRUE, <<1>>, 2, ".Html")}

\* the URLs of the pages that are parsed
BaseUrls ==
  { Url("https", ExampleHost, "", RootPath, "", ""),
    Url("https", ExampleHost, "", Path(TRUE, <<1>>, 2, ".Html"), "", ""),
    Url("http", ExampleHost, "", EmptyPath, "q", ""),
    Url("HTTP", Host(1, FALSE, TRUE), "80", Path(TRUE, <<>>, 1, ""), "",
        "frag") }

\* the values of href: references with a prefix, whole URLs, references
\* with a host and no scheme ("//host/path"), paths, queries and
\* fragments, the empty string and blanks
AllHrefs ==
  {Href(prefix, "", NoHost, "", Path(FALSE, <<>>, 1, ""), "", "", blanks) :
     prefix \in {"mailto:", "javascript:", "data:", "MAILTO:", "tel:"},
     blanks \in BOOLEAN}
  \cup
  {Href("", scheme, host, port, path, "", fragment, FALSE) :
     scheme \in {"", "http", "https", "HTTP", "ftp"},
     host \in HostSpellings,
     port \in {"", "80", "443", "8080"},
     path \in {p \in HrefPaths : p = EmptyPath \/ p.root},
     fragment \in {"", "frag"}}
  \cup
  {Href("", "", NoHost, "", path, query, fragment, blanks) :
     path \in HrefPaths, query \in {"", "q"}, fragment \in {"", "frag"},
     blanks \in BOOLEAN}

\* the anchors of the pages that are parsed: "/1", "/1#frag", "/1.jpg", "https://other.com/", "https://www.example.com/1",
\* "mailto:1"
PageHrefs ==
  { RootHref(1, ""),
    Href("", "", NoHost, "", Path(TRUE, <<>>, 1, ""), "", "frag", FALSE),
    RootHref(1, ".jpg"),
    UrlHref(Url("https", OtherHost, "", RootPath, "", "")),
    UrlHref(Url("https", Host(1, TRUE, FALSE), "", Path(TRUE, <<>>, 1, ""),
                "", "")),
    MailtoHref }

RECURSIVE HrefLists(_)
HrefLists(n) ==
  IF n = 0 THEN {<<>>}
  ELSE LET shorter == HrefLists(n - 1)
       IN shorter \cup {Append(l, h) : l \in shorter, h \in PageHrefs}

\* allowed_domains: None or empty, the site, the site and another
DomainSets == {{}, {ExampleHost}, {ExampleHost, OtherHost}}

\* the URLs of the pages whose anchors are extracted
PageUrls ==
  { Url("https", ExampleHost, "", RootPath, "", ""),
    Url("HTTP", Host(1, FALSE, TRUE), "80", Path(TRUE, <<>>, 1, ""), "",
        "frag") }

\* a call of normalize_url and what it returns
call_normalize_url(base_url, href) ==
  /\ call' = [fn |-> "normalize_url", base_url |-> base_url, href |-> href,
              result |-> normalize_url(base_url, href)]
  /\ UNCHANGED <<clock, frontierVars, rateVars, cooldown, supervisorVars,
                 crawlVars, pc, loc>>

\* a call of extract_links and the links it returns
call_extract_links(base_url, hrefs, domains) ==
  /\ call' = [fn |-> "extract_links", base_url |-> base_url,
              hrefs |-> hrefs, allowed_domains |-> domains,
              result |-> find_links(base_url, hrefs, domains)]
  /\ UNCHANGED <<clock, frontierVars, rateVars, cooldown, supervisorVars,
                 crawlVars, pc, loc>>

\* one call in a behaviour
NextParser ==
  \/ /\ NoCall
     /\ \E base_url \in BaseUrls, href \in AllHrefs :
           call_normalize_url(base_url, href)
  \/ /\ NoCall
     /\ \E base_url \in PageUrls, hrefs \in HrefLists(MaxHrefs),
           domains \in DomainSets :
           call_extract_links(base_url, hrefs, domains)

SpecParser == InitFrontier /\ [][NextParser]_vars

\* --------------------------------------------------------- the claims
TotalReturned(u) ==
  Cardinality({c \in Workers : u \in Returned(c)})

\* C1: under any interleaving of pop_ready calls and pushes, an entry is
\* returned by at most one pop_ready per insertion: for every URL the
\* insertions not yet returned are exactly the entries the frontier holds
\* (a pop that returned a URL removed its entry), and no result list holds
\* a URL twice.
C1_ClaimedOncePerInsertion ==
  /\ \A u \in Urls :
        unclaimed[u] = Cardinality({e \in frontier : e.member = u})
  /\ \A c \in Workers : \A u \in Urls : Occurrences(loc[c].urls, u) <= 1

\* two callers hold the same URL, each from an insertion of its own
C1_Witness ==
  \E c, d \in Workers : c # d /\ Returned(c) \cap Returned(d) # {}

AllReturned == \A c \in Workers : pc[c] = "idle" /\ loc[c].max_count # None

\* C2: n due URLs, k concurrent pop_ready(max) with max >= n, no push: once
\* all calls have returned, every pushed URL is in exactly one result list,
\* once, and the frontier is empty.
C2_DrainedExactlyOnce ==
  AllReturned =>
    /\ frontier = {}
    /\ \A u \in Urls :
          /\ unclaimed[u] = 0
          /\ \A c \in Workers : Occurrences(loc[c].urls, u) <= 1
          /\ TotalReturned(u) <= 1

\* both calls were given the whole frontier to claim and one got it all
C2_Witness ==
  /\ AllReturned
  /\ Cardinality(Pushed) = NUrls
  /\ \E c, d \in Workers : Len(loc[c].urls) = NUrls /\ loc[d].urls = <<>>

\* C7: pop_ready(max) with clock reading now returns at most max URLs, each
\* of an entry whose score was <= now, and leaves the entries with
\* score > now as they were.
C7_PopReadyOnlyDue ==
  [][\A c \in Workers :
       (pc[c] = "pop_script" /\ pc'[c] # "pop_script") =>
         LET now == loc[c].now
             got == loc'[c].urls
         IN /\ Len(got) <= loc[c].max_count
            /\ \A i \in 1..Len(got) :
                  \E e \in frontier : e.member = got[i] /\ e.score <= now
            /\ {e \in frontier' : e.score > now}
                  = {e \in frontier : e.score > now}]_vars

\* a pop returned as many URLs as it asked for and an entry that is not
\* due is in the frontier
C7_Witness ==
  \E c \in Workers :
    /\ pc[c] = "idle" /\ loc[c].max_count # None
    /\ Len(loc[c].urls) >= 1
    /\ Len(loc[c].urls) = loc[c].max_count
    /\ \E e \in frontier : e.score > clock

AtMostOneEntry == \A e, f \in frontier : e.member = f.member => e = f

\* C8: the frontier holds at most one entry per URL in every state; the
\* ZADD of push or push_many leaves exactly one entry, with the new score,
\* for each URL pushed, and leaves all other entries unchanged.
C8_OneEntryPerUrl ==
  /\ []AtMostOneEntry
  /\ [][\A c \in Workers :
          (pc[c] = "zadd" /\ pc'[c] # "zadd") =>
            /\ \A u \in loc[c].members :
                  {e \in frontier' : e.member = u}
                    = {[member |-> u, score |-> loc[c].score]}
            /\ {e \in frontier' : e.member \notin loc[c].members}
                  = {e \in frontier : e.member \notin loc[c].members}]_vars

\* a push_many has run for two URLs of which one was already present
C8_Witness ==
  \E c \in Workers :
    /\ pc[c] = "idle"
    /\ Cardinality(loc[c].members) = 2
    /\ loc[c].added = 1
    /\ AtMostOneEntry

\* C3: for every host, between two reservations that the server grants
\* one after the other at least cooldown elapses at the server.
C3_CooldownElapsesAtServer ==
  [][\A c \in Workers :
       (pc[c] = "rl_script" /\ pc'[c] # "rl_script" /\ loc'[c].reserved
          /\ reservedAt[loc[c].domain] # None) =>
         clock - reservedAt[loc[c].domain] >= cooldown]_vars

\* C4: check_and_reserve with clock reading now: with no record, or a
\* record <= now, the record becomes now + cooldown and the result is
\* (now, true); otherwise the result is (record, false) and the hash is
\* unchanged; the records of the other hosts are unchanged in both cases.
C4_CheckAndReserveResult ==
  [][\A c \in Workers :
       (pc[c] = "rl_script" /\ pc'[c] # "rl_script") =>
         LET d == loc[c].domain
             now == loc[c].now
         IN IF rate[d] = None \/ rate[d] <= now
            THEN /\ rate' = [rate EXCEPT ![d] = now + cooldown]
                 /\ loc'[c].allowed_at = now
                 /\ loc'[c].reserved
            ELSE /\ rate' = rate
                 /\ loc'[c].allowed_at = rate[d]
                 /\ ~loc'[c].reserved]_vars

AllReserveReturned ==
  \A c \in Workers : pc[c] = "idle" /\ loc[c].domain # None

Max(S) == CHOOSE x \in S : \A y \in S : y <= x
Min(S) == CHOOSE x \in S : \A y \in S : x <= y

\* the largest difference between the clock readings of the callers
Skew == LET nows == {loc[c].now : c \in Workers} IN Max(nows) - Min(nows)

\* C5: concurrent reservations for one host whose record is absent or
\* expired, cooldown > 0: exactly one returns reserved=true (the callers'
\* readings being less than cooldown apart), every other returns
\* reserved=false with allowed_at >= now + cooldown, up to the skew.
C5_ExactlyOneReserved ==
  AllReserveReturned =>
    /\ Skew < cooldown =>
          Cardinality({c \in Workers : loc[c].reserved}) = 1
    /\ \A c \in Workers :
          ~loc[c].reserved =>
            loc[c].allowed_at >= loc[c].now + cooldown - Skew

\* the stores a worker writes besides the frontier
NoPageNoMark == UNCHANGED <<pages, visited, visited_ts>>

\* C6: a worker whose check_and_reserve returned reserved=false goes to the
\* re-push and not to the fetch; the re-push leaves exactly one entry for
\* the claimed URL, with score allowed_at, leaves the other entries, the
\* page store and the visited set unchanged, and ends the iteration.
C6_DeferredNotFetched ==
  [][\A w \in Workers :
       /\ (pc[w] = "reserved" /\ pc'[w] # "reserved" /\ ~loc'[w].reserved) =>
             /\ pc'[w] = "push"
             /\ loc'[w].url = loc[w].url
             /\ UNCHANGED frontier
             /\ NoPageNoMark
       /\ (pc[w] = "push" /\ pc'[w] # "push") =>
             /\ ~loc[w].reserved
             /\ pc'[w] = "run"
             /\ frontier' = {e \in frontier : e.member # loc[w].url} \cup
                   {[member |-> loc[w].url, score |-> loc[w].allowed_at]}
             /\ NoPageNoMark
             /\ UNCHANGED <<rate, robots_blocked>>]_vars

\* a worker has deferred a URL: it is in the frontier with score allowed_at,
\* not visited
C6_Witness ==
  \E w \in Workers :
    /\ pc[w] = "run" /\ loc[w].outcome = "deferred"
    /\ [member |-> loc[w].url, score |-> loc[w].allowed_at] \in frontier
    /\ loc[w].url \notin visited

\* C9: a worker that claimed a URL which is in the visited set ends the
\* iteration at once: no robots lookup, no reservation, no fetch, no page,
\* no push.
C9_VisitedSkipped ==
  [][\A w \in Workers :
       (pc[w] = "is_visited" /\ pc'[w] # "is_visited"
          /\ loc[w].url \in visited) =>
         /\ pc'[w] = "run"
         /\ UNCHANGED <<frontier, rate, robots_cache, robots_ts, pages,
                        visited, visited_ts, robots_blocked>>]_vars

\* a worker has claimed a visited URL and dropped it
C9_Witness ==
  \E w \in Workers :
    /\ pc[w] = "run" /\ loc[w].outcome = "visited"
    /\ loc[w].url \in visited
    /\ loc[w].url \notin Members(frontier)

\* C10: a claimed, unvisited URL that the robots policy disallows: the
\* worker goes to the counter and not to the reservation, adds one to
\* robots_blocked, then marks the URL visited and ends the iteration; it
\* stores no page, reserves nothing and pushes nothing.
C10_RobotsDenied ==
  [][\A w \in Workers :
       /\ (pc[w] \in {"robots_cached", "robots_store"} /\ pc'[w] # pc[w]
             /\ ~can_fetch(loc'[w].text, loc[w].url)) =>
             /\ pc'[w] = "incr"
             /\ loc'[w].url = loc[w].url
       /\ (pc[w] = "incr" /\ pc'[w] # "incr") =>
             /\ robots_blocked' = robots_blocked + 1
             /\ pc'[w] = "mark_denied"
             /\ loc'[w].url = loc[w].url
             /\ UNCHANGED <<frontier, rate, pages, visited, visited_ts>>
       /\ (pc[w] = "mark_denied" /\ pc'[w] # "mark_denied") =>
             /\ visited' = visited \cup {loc[w].url}
             /\ pc'[w] = "run"
             /\ UNCHANGED <<frontier, rate, pages, robots_blocked>>]_vars

\* a worker has dropped a disallowed URL: counted, visited, no page
C10_Witness ==
  \E w \in Workers :
    /\ pc[w] = "run" /\ loc[w].outcome = "robots"
    /\ loc[w].url \in Disallowed
    /\ loc[w].url \in visited
    /\ ~has_page(loc[w].url)
    /\ robots_blocked = 1

\* the delays of the sleeps of _fetch: 0.5 s, then twice the one before
Backoffs(sleeps) ==
  \A i \in 1..Len(sleeps) :
    sleeps[i] = IF i = 1 THEN InitialDelay ELSE 2 * sleeps[i - 1]

\* what holds of the attempts of a worker in every state
AttemptsBounded(w) ==
  /\ loc[w].gets <= MaxAttempts
  /\ Backoffs(loc[w].sleeps)
  /\ pc[w] = "fetch" =>
        /\ loc[w].gets < MaxAttempts
        /\ loc[w].attempts = loc[w].gets
        /\ Len(loc[w].sleeps) = loc[w].gets
  /\ pc[w] = "backoff" =>
        /\ loc[w].gets < MaxAttempts
        /\ loc[w].attempts = loc[w].gets
        /\ loc[w].resp.exc
        /\ Len(loc[w].sleeps) = loc[w].gets - 1
  /\ pc[w] = "save_page" =>
        Len(loc[w].sleeps) = loc[w].gets - 1

AllAttemptsBounded == \A w \in Workers : AttemptsBounded(w)

\* C11: _fetch makes at most 3 GETs; it makes a further one only when all
\* before ended in a transport exception; a response ends _fetch without a
\* sleep; it sleeps between two GETs only, 0.5 s and then 1.0 s.
C11_FetchAttempts ==
  /\ []AllAttemptsBounded
  /\ [][\A w \in Workers :
         (pc[w] = "fetch" /\ loc'[w].gets = loc[w].gets + 1
            /\ ~loc'[w].resp.exc) =>
           /\ pc'[w] = "save_page"
           /\ loc'[w].sleeps = loc[w].sleeps]_vars

\* two transport exceptions, two sleeps, then a response
C11_Witness ==
  \E w \in Workers :
    /\ pc[w] = "save_page"
    /\ loc[w].gets = MaxAttempts
    /\ loc[w].status = 200
    /\ loc[w].sleeps = <<InitialDelay, 2 * InitialDelay>>

\* C12: after three transport exceptions the worker stores a page with
\* status 0, empty html and no links, marks the URL visited and ends the
\* iteration; it pushes nothing into the frontier.
C12_FailedFetchStored ==
  [][\A w \in Workers :
       loc[w].attempts = MaxAttempts =>
         /\ (pc[w] = "save_page" /\ pc'[w] # "save_page") =>
               /\ has_page(loc[w].url)'
               /\ get_page(loc[w].url)'.status = 0
               /\ get_page(loc[w].url)'.html = <<>>
               /\ get_page(loc[w].url)'.links = <<>>
               /\ pc'[w] = "mark_visited"
               /\ UNCHANGED frontier
         /\ (pc[w] = "mark_visited" /\ pc'[w] # "mark_visited") =>
               /\ visited' = visited \cup {loc[w].url}
               /\ pc'[w] = "run"
               /\ UNCHANGED <<frontier, pages>>]_vars

\* a URL that could not be fetched is stored with status 0, visited, and
\* not in the frontier
C12_Witness ==
  \E w \in Workers :
    /\ pc[w] = "run" /\ loc[w].outcome = "stored"
    /\ has_page(loc[w].url)
    /\ get_page(loc[w].url).status = 0
    /\ loc[w].url \in visited
    /\ loc[w].url \notin Members(frontier)

\* the worker is past _fetch with the result of its last GET
PastFetch(w) == pc[w] \in {"save_page", "mark_visited", "has_many", "push_many"}

\* the Content-Type of a response contains "text/html"; an absent one
\* contains nothing
IsHtmlType(ctype) == ctype # NoText /\ contains_text_html(lower(ctype))

\* C13: a response whose status is not 200, or whose content type does not
\* contain "text/html" or is absent: the page handed to the store has the
\* status of the response, empty html and no links, and the worker comes
\* to no push.
C13_NonHtmlStoredEmpty ==
  \A w \in Workers :
    (PastFetch(w) /\ ~loc[w].resp.exc
       /\ (loc[w].resp.status # 200 \/ ~IsHtmlType(loc[w].resp.ctype))) =>
      /\ PageOf(w).status = loc[w].resp.status
      /\ PageOf(w).html = <<>>
      /\ PageOf(w).links = <<>>
      /\ pc[w] \notin {"has_many", "push_many"}

\* the links of the page at url, given its html
LinksOf(url, html) ==
  IF html = <<>> THEN <<>> ELSE extract_links(url, html).links

\* C14: a 200 text/html response: with a body longer than the cap the page
\* has status 200, empty html and no links, and nothing is pushed; with a
\* body of at most the cap the page has the decoded body and its links.
C14_BodyCap ==
  \A w \in Workers :
    (PastFetch(w) /\ ~loc[w].resp.exc
       /\ loc[w].resp.status = 200 /\ IsHtmlType(loc[w].resp.ctype)) =>
      IF Len(loc[w].resp.content) > max_content_size_bytes
      THEN /\ PageOf(w).status = 200
           /\ PageOf(w).html = <<>>
           /\ PageOf(w).links = <<>>
           /\ pc[w] \notin {"has_many", "push_many"}
      ELSE /\ PageOf(w).status = 200
           /\ PageOf(w).html = decode(loc[w].resp.content)
           /\ PageOf(w).links =
                 LinksOf(loc[w].url, decode(loc[w].resp.content))

\* the one link of the page at url that is neither binary nor off the
\* allowed domains
HtmlLink(url) == (url % NUrls) + 1

\* every link a worker holds, every stored link and every frontier entry
\* has passed the normalizer and the domain filter; after the first cycle
\* the frontier holds the HTML link of the page
LinksFiltered ==
  \A w \in Workers :
    /\ PastFetch(w) =>
          loc[w].new_links \in {<<>>, <<HtmlLink(loc[w].url)>>}
    /\ Members(frontier) \subseteq Urls
    /\ \A d \in pages : d.links \in {<<>>, <<HtmlLink(d.url)>>}
    /\ (pc[w] = "run" /\ loc[w].outcome = "stored"
          /\ Cardinality(pages) = 1 /\ has_page(loc[w].url)
          /\ get_page(loc[w].url).html # <<>>) =>
          /\ HtmlLink(loc[w].url) \in Members(frontier)
          /\ get_page(loc[w].url).links = <<HtmlLink(loc[w].url)>>

\* C15: the links of a page are those that pass the normalizer and the
\* domain filter, once each, and the stored page holds all of them; the
\* worker pushes those of them that has_many reported as not visited, and
\* nothing else; after the first cycle the frontier holds the HTML link
\* of the page and no binary or off-domain URL.
C15_LinksEnqueued ==
  /\ []LinksFiltered
  /\ [][\A w \in Workers :
         /\ (pc[w] = "save_page" /\ pc'[w] # "save_page") =>
               get_page(loc[w].url)'.links = loc[w].new_links
         /\ (pc[w] = "has_many" /\ pc'[w] = "push_many") =>
               loc'[w].members =
                 {u \in Range(loc[w].new_links) : u \notin visited}
         /\ (pc[w] = "has_many" /\ pc'[w] = "run") =>
               /\ Range(loc[w].new_links) \subseteq visited
               /\ UNCHANGED frontier
         /\ (pc[w] = "push_many" /\ pc'[w] # "push_many") =>
               /\ Members(frontier') = Members(frontier) \cup loc[w].members
               /\ \A e \in frontier' :
                     e.member \notin loc[w].members => e \in frontier]_vars

\* the first cycle has stored a page with html and pushed its HTML link
C15_Witness ==
  \E w \in Workers :
    /\ pc[w] = "run" /\ loc[w].outcome = "stored"
    /\ Cardinality(pages) = 1 /\ has_page(loc[w].url)
    /\ get_page(loc[w].url).links = <<HtmlLink(loc[w].url)>>
    /\ HtmlLink(loc[w].url) \in Members(frontier)

\* no task of a worker has ended
AllWorkersAlive == \A w \in Workers : pc[w] \notin {"raised", "cancelled"}

\* C16: when a command of Redis or Mongo raises in an iteration of a
\* worker, the worker drops the URL and stands at the top of its loop, and
\* the other workers are where they were; no worker's task ever ends.
C16_OutageDropsUrlOnly ==
  /\ [][\A w \in Workers :
         (loc[w].outcome # "raised" /\ loc'[w].outcome = "raised") =>
           /\ pc'[w] = "run"
           /\ \A o \in Workers \ {w} : pc'[o] = pc[o]]_vars
  /\ []AllWorkersAlive

\* C17: no step takes a URL out of the visited set and a mark puts its URL
\* in; is_visited answers membership; has_many answers with one flag per
\* position of its input, the membership of the URL at that position, and
\* with the empty list for the empty list.
C17_VisitedQueries ==
  [][/\ visited \subseteq visited'
     /\ \A c \in Workers :
          loc'[c] # loc[c] =>
            /\ loc'[c].outcome = "mark_visited" =>
                  loc'[c].url \in visited'
            /\ loc'[c].outcome = "is_visited" =>
                  loc'[c].seen = (loc'[c].url \in visited)
            /\ loc'[c].outcome = "has_many" =>
                  /\ Len(loc'[c].flags) = Len(loc'[c].new_links)
                  /\ \A i \in 1..Len(loc'[c].new_links) :
                        loc'[c].flags[i] = (loc'[c].new_links[i] \in visited)
                  /\ loc'[c].new_links = <<>> => loc'[c].flags = <<>>]_vars

\* has_many has answered for a list that holds a visited URL twice and a
\* URL that is not visited
C17_Witness ==
  \E c \in Workers :
    /\ loc[c].outcome = "has_many"
    /\ Len(loc[c].new_links) = MaxLen
    /\ \E i, j, k \in 1..MaxLen :
          /\ i # j /\ loc[c].new_links[i] = loc[c].new_links[j]
          /\ loc[c].flags[i] /\ loc[c].flags[j] /\ ~loc[c].flags[k]

\* C18: a mark of a URL that is visited leaves the visited set and the
\* time recorded for the URL as they are: the time stays the first one.
C18_MarkWriteOnce ==
  [][\A u \in visited :
       u \in visited' /\ visited_ts'[u] = visited_ts[u]]_vars

\* the page store holds at most one document per URL
OneDocPerUrl == \A d, e \in pages : d.url = e.url => d = e

\* C19: the page store holds at most one document per URL; a save_page
\* leaves for its URL the document it was called with, every field of it,
\* and leaves the documents of the other URLs as they are; no other step
\* changes the page store.
C19_LastWriteWins ==
  /\ []OneDocPerUrl
  /\ [][/\ \A c \in Workers :
            (pc[c] \in {"update_one", "save_page"} /\ pc'[c] # pc[c]) =>
              /\ has_page(loc[c].url)'
              /\ \A d \in pages' : d.url = loc[c].url => d = PageOf(c)
              /\ \A d \in pages \cup pages' :
                    d.url # loc[c].url => d \in pages \cap pages'
        /\ pages' # pages =>
              \E c \in Workers :
                pc[c] \in {"update_one", "save_page"} /\ pc'[c] # pc[c]]_vars

\* two callers have saved the same URL with no field in common but url and
\* domain; the store holds the document of the one that wrote last
C19_Witness ==
  \E c, o \in Workers :
    /\ c # o
    /\ loc[c].outcome = "save_page" /\ loc[o].outcome = "save_page"
    /\ pc[c] = "idle" /\ pc[o] = "idle"
    /\ loc[c].url = loc[o].url
    /\ loc[c].status # loc[o].status /\ loc[c].ts # loc[o].ts
    /\ pages = {PageOf(c)}

\* the cache entry of a host is younger than TTL
Fresh(h) == robots_ts[h] # None /\ clock - robots_ts[h] < ttl

\* C20: is_allowed for a host with an entry younger than TTL takes the
\* cached text and fetches no robots.txt; with no entry, or one of age TTL
\* or more, it fetches robots.txt and stores the text with its clock
\* reading now for the host, and for no other host.
C20_RobotsCacheTtl ==
  [][\A w \in Workers :
       LET h == hostname(loc[w].url)
       IN /\ (pc[w] = "robots" /\ pc'[w] # "robots") =>
                /\ pc'[w] = IF Fresh(h) THEN "robots_cached"
                                        ELSE "robots_fetch"
                /\ loc'[w].now = clock
                /\ UNCHANGED <<robots_cache, robots_ts>>
          /\ (pc[w] = "robots_cached" /\ pc'[w] # "robots_cached") =>
                /\ loc'[w].text = robots_cache[h]
                /\ pc'[w] \in {"reserve", "incr"}
                /\ UNCHANGED <<robots_cache, robots_ts>>
          /\ (pc[w] = "robots_fetch" /\ pc'[w] # "robots_fetch") =>
                /\ pc'[w] = "robots_store"
                /\ UNCHANGED <<robots_cache, robots_ts>>
          /\ (pc[w] = "robots_store" /\ pc'[w] # "robots_store") =>
                /\ robots_cache' = [robots_cache EXCEPT ![h] = loc[w].text]
                /\ robots_ts' = [robots_ts EXCEPT ![h] = loc[w].now]
                /\ Fresh(h)' \/ clock - loc[w].now >= ttl]_vars

\* a worker takes the cached text of an entry that is a tick old or more
C20_Witness ==
  \E w \in Workers :
    /\ pc[w] = "robots_cached"
    /\ Fresh(hostname(loc[w].url))
    /\ clock > robots_ts[hostname(loc[w].url)]

\* the GET of a robots.txt failed: an exception or a status >= 400
RobotsFailed(result) == result.exc \/ result.status >= 400

\* C21: a GET of robots.txt that ends in an exception or a status >= 400
\* gives the empty text; the worker stores the empty text with the clock
\* reading of its call for the host, is_allowed holds for the URL, allowed
\* or not by the rules of the host, and the worker goes on to the rate
\* limiter; from there it stands at the fetch or re-pushes the URL.
C21_RobotsFailureAllowsAll ==
  [][\A w \in Workers :
       LET h == hostname(loc[w].url)
       IN /\ (pc[w] = "robots_fetch" /\ pc'[w] # "robots_fetch"
                /\ RobotsFailed(loc'[w].robots_resp)) =>
                /\ loc'[w].text = ""
                /\ \A u \in Urls : can_fetch(loc'[w].text, u)
                /\ pc'[w] = "robots_store"
          /\ (pc[w] = "robots_store" /\ pc'[w] # "robots_store"
                /\ RobotsFailed(loc[w].robots_resp)) =>
                /\ robots_cache'[h] = ""
                /\ robots_ts'[h] = loc[w].now
                /\ loc[w].now <= clock
                /\ pc'[w] = "reserve"
                /\ UNCHANGED <<visited, robots_blocked>>
          /\ (pc[w] = "reserve" /\ pc'[w] # "reserve") =>
                pc'[w] = "reserved"
          /\ (pc[w] = "reserved" /\ pc'[w] # "reserved") =>
                pc'[w] \in {"fetch", "push"}]_vars

\* the robots.txt of a host answered with an error page; a URL that the
\* rules of the host disallow has been fetched under the empty text
C21_Witness ==
  \E w \in Workers :
    /\ pc[w] = "save_page"
    /\ loc[w].url \in Disallowed
    /\ RobotsFailed(loc[w].robots_resp)
    /\ ~loc[w].robots_resp.exc
    /\ robots_cache[hostname(loc[w].url)] = ""

\* the visited set has grown by n since the workers were created
GrownBy(n) == Cardinality(visited) >= supervisor.start + n

\* C22: with max_pages = n the stop signal is set only in a state in which
\* the visited set has grown by n since run start, and once it has grown
\* by n the stop signal is set in the end.
C22_StopAtTarget ==
  /\ [][(~stop_event /\ stop_event') =>
          /\ supervisor.max_pages # None
          /\ GrownBy(supervisor.max_pages)]_vars
  /\ (supervisor.max_pages # None /\ GrownBy(supervisor.max_pages))
        ~> stop_event

\* C23: MAX_PAGES set to n and no --max-pages given: once the visited set
\* has grown by n since run start, the stop signal is set in the end.
C23_ConfigMaxPagesStops ==
  (/\ supervisor.args_max_pages = None
   /\ supervisor.cfg_max_pages # None
   /\ GrownBy(supervisor.cfg_max_pages)) ~> stop_event

\* every task of a worker has ended
AllDone == \A w \in Workers : pc[w] = "done"

\* a worker leaves its loop from the top only, and the iteration it ended
\* left its URL visited, with a page if it was fetched
IterationsCompleted ==
  \A w \in Workers :
    /\ loc[w].outcome \in {"visited", "robots", "stored"} =>
          loc[w].url \in visited
    /\ loc[w].outcome = "stored" => has_page(loc[w].url)
    /\ pc[w] = "done" => loc[w].outcome = "done"

\* the stop signal set, no worker takes a URL out of the frontier
C24_NoClaimOnceStopped ==
  [][\A w \in Workers :
       stop_event => ~(pc[w] = "pop_ready" /\ pc'[w] = "is_visited")]_vars

\* C24: the stop signal set, no worker begins an iteration (one that stands
\* at its pop_ready, past the check, may still claim a URL); a worker in an
\* iteration takes every step of it and leaves its loop only from the top,
\* at its next check; in the end every worker has left its loop.
C24_CooperativeStop ==
  /\ []IterationsCompleted
  /\ [][\A w \in Workers :
         /\ stop_event => ~(pc[w] = "run" /\ pc'[w] = "pop_ready")
         /\ (pc[w] # "done" /\ pc'[w] = "done") =>
               stop_event /\ pc[w] = "run"
         /\ pc[w] = "done" => pc'[w] = "done"
         /\ stop_event => stop_event']_vars
  /\ stop_event ~> AllDone

\* the signal is set, every worker has left its loop, and a URL was marked
\* visited after the monitor counted
C24_Witness ==
  /\ stop_event
  /\ AllDone
  /\ Cardinality(visited) > supervisor.curr
  /\ \E w \in Workers : loc[w].url # None /\ has_page(loc[w].url)

\* ------------------------------------------------------------ C25
\* normalize(u) = u: the normalizer, given the URL as base and as
\* reference, returns it
Canonical(url) ==
  normalize_url(url_of(url), UrlHref(url_of(url))) = url_of(url)

StoredUrls == Members(frontier) \cup visited \cup {doc.url : doc \in pages}

\* C25: in every reachable state every URL in the frontier, in the visited
\* set and in the page store is canonical, a fixed point of the
\* normalizer, whether it was seeded or discovered by a worker
C25_StoredUrlsCanonical == \A u \in StoredUrls : Canonical(u)

\* ------------------------------------------------------------ C26
\* the i-th anchor of the page of the call, normalized, and whether it
\* passes the filter of allowed_domains
Norm(i) == normalize_url(call.base_url, call.hrefs[i])
Kept(i) ==
  /\ Norm(i) # NoUrl
  /\ \/ call.allowed_domains = {}
     \/ [Norm(i).host EXCEPT !.www = FALSE] \in call.allowed_domains

\* the anchors whose link no earlier anchor gave
FirstSeen ==
  {i \in 1..Len(call.hrefs) : Kept(i) /\ \A j \in 1..(i - 1) : Norm(j) # Norm(i)}
NthFirstSeen(k) ==
  CHOOSE i \in FirstSeen : Cardinality({j \in FirstSeen : j <= i}) = k

\* test_extract_links_filters_binary_and_duplicates: /a, /a#frag,
\* /image.jpg and https://other.com/ on https://example.com/
TestPage ==
  [base_url |-> Url("https", ExampleHost, "", RootPath, "", ""),
   hrefs |-> << RootHref(1, ""),
                Href("", "", NoHost, "", Path(TRUE, <<>>, 1, ""), "", "frag",
                     FALSE),
                RootHref(1, ".jpg"),
                UrlHref(Url("https", OtherHost, "", RootPath, "", "")) >>,
   links |-> << Url("https", ExampleHost, "", Path(TRUE, <<>>, 1, ""), "",
                    "") >>]

\* C26: extract_links returns the links without duplicates and without
\* None, in the order in which the document first shows them; two hrefs
\* with one normal form give one entry; with allowed_domains set a link is
\* kept only if its host without a leading "www." is in the set
C26_ExtractLinks ==
  call.fn = "extract_links" =>
    LET links == call.result
    IN /\ \A k, l \in 1..Len(links) : k # l => links[k] # links[l]
       /\ \A k \in 1..Len(links) : links[k] # NoUrl
       /\ Len(links) = Cardinality(FirstSeen)
       /\ \A k \in 1..Len(links) : links[k] = Norm(NthFirstSeen(k))
       /\ call.allowed_domains # {} =>
            \A k \in 1..Len(links) :
               [links[k].host EXCEPT !.www = FALSE] \in call.allowed_domains
       /\ (/\ call.base_url = TestPage.base_url
           /\ call.hrefs = TestPage.hrefs
           /\ call.allowed_domains = {ExampleHost}) =>
            links = TestPage.links

\* a page with two different hrefs of one link, a link to a "www." host
\* that is kept and a link that the filter drops
C26_Witness ==
  /\ call.fn = "extract_links"
  /\ call.allowed_domains # {}
  /\ \E i, j \in 1..Len(call.hrefs) :
        /\ i < j /\ call.hrefs[i] # call.hrefs[j]
        /\ Kept(i) /\ Norm(i) = Norm(j)
  /\ \E k \in 1..Len(call.result) : call.result[k].host.www
  /\ \E i \in 1..Len(call.hrefs) : Norm(i) # NoUrl /\ ~Kept(i)
  /\ Len(call.result) = 2

\* ------------------------------------------------------------ C27
\* href against base by the rules of URL resolution: the scheme, the host
\* and port, and the path of the reference, each taken from the base where
\* the reference has none
HasHost(href) == href.host # NoHost
RefScheme(base_url, href) ==
  IF href.prefix # "" THEN lower_scheme(prefix_scheme(href.prefix))
  ELSE IF href.scheme # "" THEN lower_scheme(href.scheme)
  ELSE lower_scheme(base_url.scheme)
RefHost(base_url, href) ==
  IF HasHost(href) THEN href.host ELSE base_url.host
RefPort(base_url, href) ==
  IF HasHost(href) THEN href.port ELSE base_url.port
RefPath(base_url, href) ==
  IF HasHost(href) \/ href.path.root THEN href.path
  ELSE IF href.path = EmptyPath THEN base_url.path
  ELSE Path(TRUE, base_url.path.dir \o href.path.dir, href.path.file,
            href.path.ext)

\* the extensions of the web that are a blocked extension in some case
BlockedSpellings == {".JPG", ".jpg", ".pdf", ".PDF"}

DefaultPort(scheme) ==
  CASE scheme = "http" -> "80" [] scheme = "https" -> "443"

\* an href that is empty once stripped
Blank(href) == [href EXCEPT !.blanks = FALSE] = FileHref(0, "", "")

\* the cases for which normalize_url is to return None
Rejected(base_url, href) ==
  \/ Blank(href)
  \/ href.prefix \in {"mailto:", "javascript:", "data:"}
  \/ RefScheme(base_url, href) \notin {"http", "https"}
  \/ RefPath(base_url, href).ext \in BlockedSpellings

\* test_normalize.py and test_normalize_url_basic: "/about" on
\* https://example.com/, "details#section" on https://example.com/x, "#frag"
\* on https://example.com/path/index.html, and the default ports
NormalizeTests ==
  LET root == Url("https", ExampleHost, "", RootPath, "", "")
      page == Url("https", ExampleHost, "", Path(TRUE, <<1>>, 2, ".Html"),
                  "", "")
      one == Path(TRUE, <<>>, 1, "")
  IN { [base_url |-> root, href |-> RootHref(1, ""),
        result |-> Url("https", ExampleHost, "", one, "", "")],
       [base_url |-> root, href |-> FileHref(1, "", "frag"),
        result |-> Url("https", ExampleHost, "", one, "", "")],
       [base_url |-> page, href |-> FileHref(0, "", "frag"),
        result |-> page],
       [base_url |-> page, href |-> RootHref(1, ""),
        result |-> Url("https", ExampleHost, "", one, "", "")],
       [base_url |-> root, href |-> MailtoHref, result |-> NoUrl],
       [base_url |-> root, href |-> FileHref(1, ".JPG", ""),
        result |-> NoUrl],
       [base_url |-> root, href |-> FileHref(1, ".pdf", ""),
        result |-> NoUrl],
       [base_url |-> root,
        href |-> UrlHref(Url("http", ExampleHost, "80", one, "", "")),
        result |-> Url("http", ExampleHost, "", one, "", "")],
       [base_url |-> root,
        href |-> UrlHref(Url("https", ExampleHost, "443", one, "", "")),
        result |-> Url("https", ExampleHost, "", one, "", "")] }

\* C27: normalize_url resolves href against base and returns the URL
\* without its fragment, with the host in lower case and without the
\* default port of its scheme; it returns None for an href that is empty,
\* starts with mailto:, javascript: or data:, resolves to a scheme other
\* than http and https, or has a path that ends, in any case, with a blocked
\* extension
C27_NormalizeUrl ==
  call.fn = "normalize_url" =>
    LET base_url == call.base_url
        href == call.href
        norm == call.result
    IN /\ Rejected(base_url, href) => norm = NoUrl
       /\ norm # NoUrl =>
            /\ norm.scheme = RefScheme(base_url, href)
            /\ norm.host = [RefHost(base_url, href) EXCEPT !.upper = FALSE]
            /\ norm.port \in {"", RefPort(base_url, href)}
            /\ norm.port # DefaultPort(norm.scheme)
            /\ norm.port = "" =>
                 RefPort(base_url, href) \in {"", DefaultPort(norm.scheme)}
            /\ norm.path \in {RefPath(base_url, href), RootPath}
            /\ norm.path = RootPath =>
                 RefPath(base_url, href) \in {EmptyPath, RootPath}
            /\ norm.fragment = ""
       /\ \A t \in NormalizeTests :
            (base_url = t.base_url /\ href = t.href) => norm = t.result

\* normalize_url has returned the URL of a reference that had a fragment,
\* a host in capitals and the default port
C27_Witness ==
  /\ call.fn = "normalize_url"
  /\ call.href.fragment # "" /\ call.href.host.upper
  /\ call.href.port = "80" /\ call.href.scheme = "HTTP"
  /\ call.result # NoUrl
  /\ call.result.port = "" /\ ~call.result.host.upper

\* ------------------------------------------------------------ C28
\* worker v has claimed url, has passed the visited check for it and has
\* not ended its iteration
Holds(v, url) ==
  /\ loc[v].url = url
  /\ pc[v] \in {"robots", "robots_cached", "robots_fetch", "robots_store",
                "incr", "mark_denied", "reserve", "reserved", "push",
                "fetch", "backoff", "save_page", "mark_visited", "has_many",
                "push_many"}

\* worker w sends a GET for its URL, or its save_page is run
Fetches(w) == pc[w] = "fetch" /\ loc'[w].gets = loc[w].gets + 1
Saves(w) == pc[w] = "save_page" /\ pc'[w] = "mark_visited"

\* C28: under every interleaving of the workers of a run, once a worker
\* has claimed a URL and passed the visited check no other worker fetches
\* that URL or saves a page for it, even if the URL is pushed again as a
\* discovered link while the first worker is fetching
C28_FetchedByOneWorker ==
  [][\A w \in Workers :
       (Fetches(w) \/ Saves(w)) =>
          \A v \in Workers \ {w} : ~Holds(v, loc[w].url)]_vars

\* ------------------------------------------------------------ C29
\* The entries whose score is later than the clock are those that a
\* rate-deferred worker pushed with score allowed_at: seeds and discovered
\* links are pushed with a reading of the clock.
Deferred == {e \in frontier : e.score > clock}

\* C29: a URL that a rate-deferred worker pushed again with score
\* allowed_at is not claimed by a pop_ready before allowed_at: while it
\* waits in the frontier no operation, a push_many of discovered links with
\* score now included, lowers its score below allowed_at
C29_DeferredScoreKept ==
  [][\A e \in Deferred :
       \E f \in frontier' : f.member = e.member /\ f.score >= e.score]_vars

\* ------------------------------------------------------------ C30
\* url was denied by robots.txt: the rules disallow it and a denial was
\* counted
RobotsDenied(url) == url \in Disallowed /\ robots_blocked > 0

VisitedAccounted == \A u \in visited : has_page(u) \/ RobotsDenied(u)

\* C30: in every reachable state every visited URL has a page in the page
\* store or was denied by robots.txt; within a worker save_page for a
\* fetched URL completes before mark_visited for it, and mark_visited
\* completes before any of its links is pushed into the frontier
C30_SaveThenMarkThenPush ==
  /\ []VisitedAccounted
  /\ [][\A w \in Workers :
          /\ (pc[w] = "mark_visited" /\ pc'[w] # "mark_visited") =>
                /\ has_page(loc[w].url)
                /\ frontier' = frontier
          /\ (pc[w] = "push_many" /\ pc'[w] # "push_many") =>
                /\ loc[w].url \in visited
                /\ has_page(loc[w].url)]_vars

\* a worker has stored a page, marked its URL and pushed its link, and a
\* URL that robots.txt denies is visited without a page
C30_Witness ==
  /\ \E w \in Workers :
        /\ loc[w].outcome = "stored"
        /\ frontier # {}
  /\ \E u, v \in visited :
        /\ has_page(u) /\ get_page(u).links # <<>>
        /\ ~has_page(v) /\ RobotsDenied(v)

\* ------------------------------------------------------------ C35
\* C35: in every state that a concurrent worker can observe, every URL
\* with a timestamp in the visited-timestamp map is a member of the
\* visited set, under every interleaving of mark_visited with is_visited,
\* has_many and count
C35_TimestampImpliesMember ==
  \A u \in UrlIds : visited_ts[u] # None => u \in visited

\* a URL has a timestamp and a caller has read the visited set since: a
\* count of one member, or a membership that is true
C35_Witness ==
  /\ \E u \in Urls : visited_ts[u] # None
  /\ \E c, d \in Workers :
        /\ loc[c].outcome = "count" /\ loc[c].count = 1
        /\ loc[d].outcome = "is_visited" /\ loc[d].seen

\* ------------------------------------------------------------ C34
\* the score that url had in the frontier
ScoreOf(zset, url) == (CHOOSE e \in zset : e.member = url).score

\* C34: within one pop_ready call the URLs are returned in non-decreasing
\* order of score, and every entry left in the frontier with score <= now
\* has a score greater than or equal to that of every returned URL
C34_LowestScoresFirst ==
  [][\A c \in Workers :
       (pc[c] = "pop_script" /\ pc'[c] # "pop_script") =>
         LET now == loc[c].now
             got == loc'[c].urls
         IN /\ \A i, j \in 1..Len(got) :
                  i < j => ScoreOf(frontier, got[i]) <= ScoreOf(frontier, got[j])
            /\ \A e \in frontier' : \A i \in 1..Len(got) :
                  e.score <= now => ScoreOf(frontier, got[i]) <= e.score]_vars

\* one pop_ready has returned two URLs, another has returned the one URL
\* it asked for and left an entry that was due behind
C34_Witness ==
  \E c, d \in Workers :
    /\ pc[c] = "idle" /\ Len(loc[c].urls) = 2
    /\ pc[d] = "idle" /\ loc[d].max_count = 1 /\ Len(loc[d].urls) = 1
    /\ \E e \in frontier : e.score = StartTime - 1

\* ------------------------------------------------------------ C33
\* C33: for every domain the stored next_allowed_time never decreases,
\* over every sequence and interleaving of check_and_reserve calls with
\* cooldown >= 0, also when the callers' clock readings are stale or out
\* of order with respect to the order in which the scripts run
C33_NextAllowedNeverDecreases ==
  [][\A d \in Hosts :
       rate[d] # None => rate'[d] # None /\ rate'[d] >= rate[d]]_vars

\* a caller whose reading of the clock is older than that of a caller
\* served before it has been answered
C33_Witness ==
  \E c, d \in Workers :
    /\ pc[c] = "idle" /\ pc[d] = "idle"
    /\ loc[c].domain # None /\ loc[c].domain = loc[d].domain
    /\ loc[c].reserved /\ ~loc[d].reserved /\ loc[d].allowed_at # None
    /\ loc[d].now < loc[c].now
    /\ rate[loc[c].domain] = loc[c].now + cooldown

\* ------------------------------------------------------------ C32
\* the stop signal is set only with max_pages = n given and the visited
\* set grown by n
StoppedAtTarget ==
  stop_event =>
    supervisor.max_pages # None /\ GrownBy(supervisor.max_pages)

\* C32: a worker never leaves its loop because the frontier is empty: the
\* stop signal unset, a worker that finds no due URL goes round its loop
\* for ever; so a run with max_pages = n in which fewer than n new URLs
\* become visited never sets the stop signal and never ends by itself
C32_NoExitOnEmptyFrontier ==
  /\ []StoppedAtTarget
  /\ [][\A w \in Workers :
          /\ (pc[w] # "done" /\ pc'[w] = "done") => stop_event
          /\ (pc[w] = "pop_ready" /\ loc'[w].outcome = "idle") =>
                pc'[w] = "run"]_vars
  /\ ([]~stop_event) =>
        \A w \in Workers : []<>(pc[w] = "pop_ready")

\* max_pages is given and not reached, the frontier is empty, the monitor
\* is in its loop and every worker has found no URL and is back at the top
\* of its loop
C32_Witness ==
  /\ supervisor.max_pages # None
  /\ ~GrownBy(supervisor.max_pages)
  /\ supervisor.pc = "scard" /\ supervisor.curr = None
  /\ supervisor.start_visited # None
  /\ frontier = {}
  /\ visited # {}
  /\ ~stop_event
  /\ \A w \in Workers : pc[w] = "run" /\ loc[w].outcome = "idle"

\* ------------------- specification: a run that is left to itself
\* run_cmd has seeded the frontier and created the tasks of the workers;
\* nobody sets the stop signal and no command of a store raises.  Every
\* robots.txt holds the rules and every page is served; a page may hold an
\* anchor such as <a href="http://["> beside its other anchors.  The event
\* loop runs every task that is ready and every command returns, so a
\* worker that can take a step takes one in the end; the wall clock goes on
\* while the record of a host or the score of an entry is ahead of it.

\* the largest cooldown of the run, in ticks
LiveCooldown == 1

\* a host that urlsplit rejects: a netloc with "[" and without "]"
BracketHost == Host(None, FALSE, FALSE)

\* the reference http://[
BracketHref == Href("", "http", BracketHost, "", EmptyPath, "", "", FALSE)

\* urljoin(base_url, href) raises ValueError("Invalid IPv6 URL"): the
\* reference is hierarchical and its netloc is one that urlsplit rejects
urljoin_raises(href) == href.prefix = "" /\ href.host = BracketHost

\* normalize_url(base_url, href) raises: the reference is neither empty nor
\* blocked by its prefix, and urljoin raises
normalize_url_raises(href) ==
  /\ ~is_empty(strip(href))
  /\ strip(href).prefix \notin BLOCKED_PREFIXES
  /\ urljoin_raises(strip(href))

\* extract_links raises: the loop over the anchors has no handler
extract_links_raises(hrefs) ==
  \E i \in DOMAIN hrefs : normalize_url_raises(hrefs[i])

\* a page that is served with the body "[": the page that holds the anchor
\* http://[ after its other anchors
MalformedPage ==
  Response(200, "text/html", <<91>>, max_content_size_bytes + 1)

\* the web: the anchors in the body html of the page at url
HrefsIn(url, html) ==
  IF html = <<91>> THEN Append(Hrefs(url), BracketHref) ELSE Hrefs(url)

\* Worker._fetch returns the page and extract_links raises: process_one
\* has no handler and Worker.run has none, so the exception ends the
\* worker's task; the URL that the worker claimed is in no store
fetch_raises(w, result) ==
  /\ pc[w] = "fetch"
  /\ loc[w].attempts < MaxAttempts
  /\ ~result.exc
  /\ truthy(Received(result).html)
  /\ extract_links_raises(HrefsIn(loc[w].url, Received(result).html))
  /\ pc' = [pc EXCEPT ![w] = "raised"]
  /\ loc' = Return(w, "raised")
  /\ UNCHANGED <<clock, frontierVars, rateVars, cooldown, call, supervisorVars, crawlVars>>

InitLive ==
  /\ clock = StartTime
  /\ \E seed_urls \in SUBSET {1, RawUrl} :
        frontier = ZADD({}, seed_urls, StartTime)
  /\ pc = [w \in Workers |-> "run"]
  /\ loc = [w \in Workers |-> InitLoc]
  /\ unclaimed = [u \in UrlIds |-> IF u \in Members(frontier) THEN 1 ELSE 0]
  /\ rate = [d \in Hosts |-> None]
  /\ cooldown \in 0..LiveCooldown
  /\ reservedAt = [d \in Hosts |-> None]
  /\ NothingCrawled
  /\ NoSupervisor
  /\ NoCall

\* the steps of the task of a worker
LiveStep(w) ==
  \/ run(w)
  \/ claim(w)
  \/ is_visited(w)
  \/ robots_load(w)
  \/ robots_cached(w)
  \/ robots_fetch(w, RobotsResponse(200, "rules"))
  \/ robots_store(w)
  \/ incr(w)
  \/ mark_denied(w)
  \/ reserve(w)
  \/ reserved(w)
  \/ defer(w)
  \/ fetch(w, ServedPage)
  \/ fetch_raises(w, MalformedPage)
  \/ save_page(w)
  \/ mark_visited(w)
  \/ has_many(w)
  \/ enqueue(w)

\* somebody waits for the clock: an entry of the frontier is not due or
\* the cooldown of a host has not elapsed
Waiting ==
  \/ \E e \in frontier : e.score > clock
  \/ \E d \in Hosts : rate[d] # None /\ rate[d] > clock

\* the wall clock advances while somebody waits for it
LiveTick ==
  /\ Waiting
  /\ clock' = clock + 1
  /\ UNCHANGED <<frontierVars, rateVars, cooldown, call, supervisorVars, crawlVars, pc, loc>>

NextLive ==
  \/ \E w \in Workers : LiveStep(w)
  \/ gather_raises
  \/ LiveTick

SpecLive ==
  /\ InitLive
  /\ [][NextLive]_vars
  /\ \A w \in Workers : WF_vars(LiveStep(w))
  /\ WF_vars(LiveTick)

\* ------------------------------------------------------------ C31
\* C31: in a run with no store failure and the stop signal never set, the
\* workers scheduled fairly and the clock advancing, every URL that is
\* ever in the frontier is marked visited in the end, the frontier becomes
\* empty and stays empty, and no URL is rate-deferred for ever
C31_EveryUrlVisited ==
  /\ \A u \in UrlIds : (u \in Members(frontier)) ~> (u \in visited)
  /\ <>[](frontier = {})
  /\ \A u \in UrlIds :
       <>[](\A w \in Workers : ~(pc[w] = "push" /\ loc[w].url = u))

====
